---- MODULE Spec2Model ----
(***************************************************************************)
(* Model of the suite-file tools of python_samples/robot_framework:        *)
(* affected_tests.py (keyword / test-case index, blacklist growth loop,    *)
(* affected.csv) and robot_retag.py (tag rewriting).                        *)
(*                                                                         *)
(* Text is a sequence of one-character strings.  Every regular expression  *)
(* of the source is an operator that computes what the expression matches. *)
(* The alphabet is ASCII letters, digits, '_', '-', '.', '/', '#', '[',     *)
(* ']', '*', space, tab and newline.                                        *)
(***************************************************************************)
EXTENDS Integers, Sequences, FiniteSets, TLC

(***************************************************************************)
(* Characters and strings                                                  *)
(***************************************************************************)
LowerLetters ==
  <<"a","b","c","d","e","f","g","h","i","j","k","l","m",
    "n","o","p","q","r","s","t","u","v","w","x","y","z">>

UpperLetters ==
  <<"A","B","C","D","E","F","G","H","I","J","K","L","M",
    "N","O","P","Q","R","S","T","U","V","W","X","Y","Z">>

Min(S) == CHOOSE x \in S : \A y \in S : x <= y

Max(S) == CHOOSE x \in S : \A y \in S : x >= y

Digits == {"0","1","2","3","4","5","6","7","8","9"}

\* the letters as sets
AsciiLower == {LowerLetters[i] : i \in 1..26}

AsciiUpper == {UpperLetters[i] : i \in 1..26}

IsLower(c) == c \in AsciiLower

IsUpper(c) == c \in AsciiUpper

\* regex \s
IsSpace(c) == c \in {" ", "\t", "\n"}

\* regex \d
IsDigit(c) == c \in Digits

\* regex \w
IsWord(c) == IsLower(c) \/ IsUpper(c) \/ IsDigit(c) \/ c = "_"

\* str.lower() on one character
LowerChar(c) ==
  IF IsUpper(c) THEN LowerLetters[CHOOSE i \in 1..26 : UpperLetters[i] = c]
  ELSE c

\* str.lower()
Lower(s) == [i \in 1..Len(s) |-> LowerChar(s[i])]

\* the literal lit occurs in s at position p
MatchAt(s, p, lit) ==
  /\ p >= 1
  /\ p + Len(lit) - 1 <= Len(s)
  /\ \A i \in 1..Len(lit) : s[p + i - 1] = lit[i]

\* the literal lit occurs in s at position p, ignoring case (re.I)
MatchAtI(s, p, lit) ==
  /\ p >= 1
  /\ p + Len(lit) - 1 <= Len(s)
  /\ \A i \in 1..Len(lit) : LowerChar(s[p + i - 1]) = LowerChar(lit[i])

\* Python's "lit in s"
Contains(s, lit) == \E p \in 1..(Len(s) + 1) : MatchAt(s, p, lit)

\* regex ^ under re.M: start of the string or just after a newline
AtLineStart(s, p) == p = 1 \/ (p >= 2 /\ p <= Len(s) + 1 /\ s[p - 1] = "\n")

\* regex $ under re.M: end of the string or just before a newline
AtLineEnd(s, p) == p = Len(s) + 1 \/ (p >= 1 /\ p <= Len(s) /\ s[p] = "\n")

\* regex $ without re.M: end of the string or before a final newline
AtStringEnd(s, p) == p = Len(s) + 1 \/ (p = Len(s) /\ s[p] = "\n")

\* first position >= p of s that is a newline, Len(s)+1 if none (where a
\* run of '.' without re.S must stop)
LineEnd(s, p) ==
  IF p > Len(s) THEN p
  ELSE Min({e \in p..(Len(s) + 1) : e = Len(s) + 1 \/ s[e] = "\n"})

\* str.strip(): first and last position of the stripped text
StripLeft(s, p) ==
  IF p > Len(s) THEN p
  ELSE Min({e \in p..(Len(s) + 1) : e = Len(s) + 1 \/ ~IsSpace(s[e])})

StripRight(s, p) ==
  IF p < 1 THEN p
  ELSE Max({e \in 0..p : e = 0 \/ ~IsSpace(s[e])})

Strip(s) ==
  LET a == StripLeft(s, 1)
      b == StripRight(s, Len(s))
  IN IF a > b THEN <<>> ELSE SubSeq(s, a, b)

\* str.split(): the maximal runs of non-whitespace characters, in order
RECURSIVE SplitFrom(_, _)
SplitFrom(s, p) ==
  LET a == StripLeft(s, p)
  IN IF a > Len(s) THEN <<>>
     ELSE LET b == CHOOSE e \in a..Len(s) :
                     /\ \A i \in a..e : ~IsSpace(s[i])
                     /\ (e = Len(s) \/ IsSpace(s[e + 1]))
          IN <<SubSeq(s, a, b)>> \o SplitFrom(s, b + 1)

Split(s) == SplitFrom(s, 1)

\* ' '.join(list) and '  '.join(list)
RECURSIVE Join(_, _)
Join(sep, list) ==
  IF list = <<>> THEN <<>>
  ELSE IF Len(list) = 1 THEN list[1]
  ELSE list[1] \o sep \o Join(sep, Tail(list))

\* the elements of a list
Range(list) == {list[i] : i \in 1..Len(list)}

\* the string starts with the literal
StartsWith(s, lit) == MatchAt(s, 1, lit)

(***************************************************************************)
(* Literals of the source                                                  *)
(***************************************************************************)
Stars3 == <<"*","*","*">>

LitSettings == <<"s","e","t","t","i","n","g","s">>

LitKeywords == <<"k","e","y","w","o","r","d","s">>

LitTestCases == <<"t","e","s","t"," ","c","a","s","e","s">>

LitResource == <<"R","e","s","o","u","r","c","e">>

LitDotRobot == <<".","r","o","b","o","t">>

LitTags == <<"[","T","a","g","s","]">>

LitTc == <<"t","c","_">>

\* Python's None; no text is equal to it
NoneVal == <<"None">>

\* the pattern r'\Z' that stands for "no next header"
ZEnd == <<"\\Z">>

(***************************************************************************)
(* Paths                                                                   *)
(***************************************************************************)
\* get_path_basename: the part after the last '/' or '\'
get_path_basename(path) ==
  LET seps == {i \in 1..Len(path) : path[i] \in {"/", "\\"}}
  IN IF seps = {} THEN path ELSE SubSeq(path, Max(seps) + 1, Len(path))

\* first position >= p of base that is not a dot
StripDots(base, p) ==
  IF p > Len(base) THEN p
  ELSE Min({e \in p..(Len(base) + 1) : e = Len(base) + 1 \/ base[e] # "."})

\* os.path.basename(path) on POSIX: the part after the last '/'
basename(path) ==
  LET seps == {i \in 1..Len(path) : path[i] = "/"}
  IN IF seps = {} THEN path ELSE SubSeq(path, Max(seps) + 1, Len(path))

\* os.path.splitext(os.path.basename(path))[0]: the base name up to its
\* last dot, leading dots not counting as an extension
SuiteOf(path) ==
  LET base == basename(path)
      lead == StripDots(base, 1)
      dots == {i \in (lead + 1)..Len(base) : base[i] = "."}
  IN IF dots = {} THEN base ELSE SubSeq(base, 1, Max(dots) - 1)

(***************************************************************************)
(* The regular expressions of the parsers                                  *)
(***************************************************************************)
\* end of the maximal run of [\w\s] characters that starts at p
WordSpaceRunEnd(s, p) ==
  IF p > Len(s) THEN p
  ELSE Min({e \in p..(Len(s) + 1) :
              e = Len(s) + 1 \/ ~(IsWord(s[e]) \/ IsSpace(s[e]))})

\* header_match = r'\*{3}[\w\s]+?\*{3}' tried at p: the position just past
\* the match, 0 when it does not match there
header_match(data, p) ==
  IF ~MatchAt(data, p, Stars3) THEN 0
  ELSE LET q == WordSpaceRunEnd(data, p + 3)
       IN IF q > p + 3 /\ MatchAt(data, q, Stars3) THEN q + 3 ELSE 0

\* re.findall(header_match, data), scanning from p
RECURSIVE FindHeaders(_, _)
FindHeaders(data, p) ==
  LET hits == {q \in p..Len(data) : header_match(data, q) # 0}
  IN IF hits = {} THEN <<>>
     ELSE LET q == Min(hits)
              e == header_match(data, q)
          IN <<SubSeq(data, q, e - 1)>> \o FindHeaders(data, e)

header_list(data) == FindHeaders(data, 1)

\* the loop over header_list: the (header, next_header) pairs kept for the
\* settings section and for the section whose header contains `word`
RECURSIVE SectionPairs(_, _, _, _)
SectionPairs(headers, word, i, acc) ==
  IF i > Len(headers) THEN acc
  ELSE LET header == headers[i]
           next_header == IF i = Len(headers) THEN ZEnd ELSE headers[i + 1]
       IN IF Contains(Lower(header), LitSettings)
          THEN SectionPairs(headers, word, i + 1,
                            [acc EXCEPT !.settings_section = <<header, next_header>>])
          ELSE IF Contains(Lower(header), word)
          THEN SectionPairs(headers, word, i + 1,
                            [acc EXCEPT !.section = <<header, next_header>>])
          ELSE SectionPairs(headers, word, i + 1, acc)

\* the closing pattern of a section matches at e
ClosesAt(data, e, next_header) ==
  IF next_header = ZEnd THEN e = Len(data) + 1 ELSE MatchAt(data, e, next_header)

\* re.findall(r'{}(.+){}'.format(header, next_header), data, re.S), first
\* match or '': from the leftmost place of the header that can match, the
\* longest text up to a place of next_header
SectionText(data, pair) ==
  LET header == pair[1]
      next_header == pair[2]
      ends(s) == {e \in (s + Len(header) + 1)..(Len(data) + 1) :
                    ClosesAt(data, e, next_header)}
      starts == {s \in 1..Len(data) : MatchAt(data, s, header) /\ ends(s) # {}}
  IN IF starts = {} THEN <<>>
     ELSE LET s == Min(starts)
          IN SubSeq(data, s + Len(header), Max(ends(s)) - 1)

\* one match of r'^Resource\s+(.+\.robot)' (re.I | re.M) tried at p: the
\* captured group [a, b] as <<a, b>>, <<>> when it does not match there
ResourceMatch(s, p) ==
  IF ~(AtLineStart(s, p) /\ MatchAtI(s, p, LitResource)) THEN <<>>
  ELSE LET q == p + Len(LitResource)
           w == StripLeft(s, q)
           dots(a) == {b \in (a + 1)..(LineEnd(s, a) - Len(LitDotRobot)) :
                         MatchAtI(s, b, LitDotRobot)}
           groups == {a \in (q + 1)..w : a <= Len(s) /\ s[a] # "\n" /\ dots(a) # {}}
       IN IF groups = {} THEN <<>>
          ELSE LET a == Max(groups)
               IN <<a, Max(dots(a)) + Len(LitDotRobot) - 1>>

\* resource_list: every match of the Resource pattern, stripped
RECURSIVE FindResources(_, _)
FindResources(settings, p) ==
  LET hits == {q \in p..Len(settings) : ResourceMatch(settings, q) # <<>>}
  IN IF hits = {} THEN <<>>
     ELSE LET m == ResourceMatch(settings, Min(hits))
          IN <<Strip(SubSeq(settings, m[1], m[2]))>>
             \o FindResources(settings, m[2] + 1)

resource_list(settings) == FindResources(settings, 1)

\* a block may start at p: r'^[\w\[]' under re.M
BlockStart(s, p) == p <= Len(s) /\ AtLineStart(s, p) /\ (IsWord(s[p]) \/ s[p] = "[")

\* the lookahead (?=^[^#\s]|\Z) holds at e
BlockStop(s, e) ==
  \/ e = Len(s) + 1
  \/ (e <= Len(s) /\ AtLineStart(s, e) /\ s[e] # "#" /\ ~IsSpace(s[e]))

\* re.findall(r'^[\w\[].+?(?=^[^#\s]|\Z)', text, re.S | re.M), scanning from p
RECURSIVE FindBlocks(_, _)
FindBlocks(s, p) ==
  LET hits == {q \in p..(Len(s) - 1) : BlockStart(s, q)}
  IN IF hits = {} THEN <<>>
     ELSE LET q == Min(hits)
              e == Min({x \in (q + 2)..(Len(s) + 1) : BlockStop(s, x)})
          IN <<SubSeq(s, q, e - 1)>> \o FindBlocks(s, e)

\* re.findall(r'^[\w\[].+?(?=#|$)', block, re.M): the first match, NoneVal
\* when the list is empty (name[0] then raises IndexError)
NameMatch(block) ==
  LET ok(p) == /\ BlockStart(block, p)
               /\ p + 1 <= Len(block)
               /\ block[p + 1] # "\n"
      starts == {p \in 1..Len(block) : ok(p)}
  IN IF starts = {} THEN NoneVal
     ELSE LET p == Min(starts)
              e == Min({x \in (p + 2)..LineEnd(block, p + 1) :
                          x = LineEnd(block, p + 1) \/ block[x] = "#"})
          IN SubSeq(block, p, e - 1)

\* re.findall(r'\[Tags\](.+)', block), first match or '', then split()
TagsOf(block) ==
  LET hits == {p \in 1..Len(block) :
                 /\ MatchAt(block, p, LitTags)
                 /\ p + Len(LitTags) <= Len(block)
                 /\ block[p + Len(LitTags)] # "\n"}
  IN IF hits = {} THEN <<>>
     ELSE LET a == Min(hits) + Len(LitTags)
          IN Split(SubSeq(block, a, LineEnd(block, a) - 1))

\* end of the maximal run of [\d_-] characters that starts at p
IdRunEnd(s, p) ==
  IF p > Len(s) THEN p
  ELSE Min({e \in p..(Len(s) + 1) :
              e = Len(s) + 1 \/ ~(IsDigit(s[e]) \/ s[e] \in {"_", "-"})})

\* test_id: first match of r'tc_[\d_-]+' (re.I) in the name, else the first
\* tag that starts with 'tc_' in lower case, else None
TestIdOf(name, tags) ==
  LET hits == {p \in 1..Len(name) :
                 MatchAtI(name, p, LitTc) /\ IdRunEnd(name, p + 3) > p + 3}
      backup == {i \in 1..Len(tags) : StartsWith(Lower(tags[i]), LitTc)}
  IN IF hits # {} THEN SubSeq(name, Min(hits), IdRunEnd(name, Min(hits) + 3) - 1)
     ELSE IF backup # {} THEN tags[Min(backup)]
     ELSE NoneVal

\* re.sub(r'[-_]', ' ', suite)
SubDashes(suite) ==
  [i \in 1..Len(suite) |-> IF suite[i] \in {"-", "_"} THEN " " ELSE suite[i]]

\* key_name = '.'.join([re.sub(r'[-_]', ' ', suite), name]).lower()
key_name(suite, name) == Lower(SubDashes(suite) \o <<".">> \o name)

(***************************************************************************)
(* Dictionaries keep insertion order: a list of (key, val) pairs           *)
(***************************************************************************)
DictHas(d, k) == \E i \in 1..Len(d) : d[i].key = k

DictGet(d, k) == d[CHOOSE i \in 1..Len(d) : d[i].key = k].val

\* dict.setdefault in place of dict.update: a present key keeps its value
DictUpdate_KeepFirst(d, k, v) ==
  IF DictHas(d, k) THEN d ELSE Append(d, [key |-> k, val |-> v])

\* dict.update({k: v}): a present key keeps its place and takes the new value
DictUpdate(d, k, v) ==
  IF DictHas(d, k)
  THEN [i \in 1..Len(d) |-> IF d[i].key = k THEN [key |-> k, val |-> v] ELSE d[i]]
  ELSE Append(d, [key |-> k, val |-> v])

DictKeys(d) == {d[i].key : i \in 1..Len(d)}

(***************************************************************************)
(* get_keywords and get_test_cases                                         *)
(***************************************************************************)
\* what a parser call has done so far: the index, the DUPLICATE lines
\* printed, and the exception that ended it ("" while none)
NoParse == [data |-> <<>>, printed |-> <<>>, raised |-> ""]

\* the value stored for one block
BlockEntry(suite, name, path, block, resources, with_tags) ==
  IF with_tags
  THEN [suite |-> suite, id |-> TestIdOf(name, TagsOf(block)),
        tags |-> TagsOf(block), name |-> name, path |-> path,
        text |-> block, resources |-> resources]
  ELSE [suite |-> suite, name |-> name, path |-> path,
        text |-> block, resources |-> resources]

\* the loop over the blocks of one section
RECURSIVE ParseBlocks(_, _, _, _, _, _, _)
ParseBlocks(blocks, i, suite, path, resources, with_tags, acc) ==
  IF i > Len(blocks) THEN acc
  ELSE IF NameMatch(blocks[i]) = NoneVal
  THEN [acc EXCEPT !.raised = "IndexError"]
  ELSE LET name == Strip(NameMatch(blocks[i]))
           key == key_name(suite, name)
           printed == IF DictHas(acc.data, key)
                      THEN Append(acc.printed, name) ELSE acc.printed
           entry == BlockEntry(suite, name, path, blocks[i], resources, with_tags)
       IN ParseBlocks(blocks, i + 1, suite, path, resources, with_tags,
                      [acc EXCEPT !.data = DictUpdate(acc.data, key, entry),
                                  !.printed = printed])

\* the body of the loop over robot_files for one file
ParseFile(file, word, with_tags, acc) ==
  IF ~file.exists THEN acc
  ELSE LET pairs == SectionPairs(header_list(file.data), word, 1,
                                 [settings_section |-> NoneVal, section |-> NoneVal])
       IN IF pairs.section = NoneVal THEN acc
          ELSE IF pairs.settings_section = NoneVal
          THEN [acc EXCEPT !.raised = "TypeError"]
          ELSE LET settings == SectionText(file.data, pairs.settings_section)
                   section == SectionText(file.data, pairs.section)
               IN ParseBlocks(FindBlocks(section, 1), 1, SuiteOf(file.path),
                              file.path, resource_list(settings), with_tags, acc)

\* the loop over robot_files; an exception ends it
RECURSIVE ParseFiles(_, _, _, _, _)
ParseFiles(robot_files, i, word, with_tags, acc) ==
  IF i > Len(robot_files) \/ acc.raised # "" THEN acc
  ELSE ParseFiles(robot_files, i + 1, word, with_tags,
                  ParseFile(robot_files[i], word, with_tags, acc))

get_keywords(robot_files) == ParseFiles(robot_files, 1, LitKeywords, FALSE, NoParse)

get_test_cases(robot_files) == ParseFiles(robot_files, 1, LitTestCases, TRUE, NoParse)

(***************************************************************************)
(* update_affected and popularity_contest                                  *)
(***************************************************************************)
\* the pattern of update_affected compiled without re.I
name_match_CaseSensitive(i, text) ==
  \E p \in 2..(Len(text) - Len(i) + 1) :
    /\ \/ text[p - 1] = "\t"
       \/ (p >= 3 /\ IsSpace(text[p - 1]) /\ IsSpace(text[p - 2]))
    /\ MatchAt(text, p, i)
    /\ LET q == p + Len(i)
       IN \/ AtStringEnd(text, q)
          \/ (q <= Len(text) /\ text[q] = "\t")
          \/ (q + 1 <= Len(text) /\ IsSpace(text[q]) /\ IsSpace(text[q + 1]))

\* re.findall(r'(?:\s{2,}|\t)' + re.escape(i) + r'(?=\s{2,}|\t|$)', text,
\* re.I) is not empty: somewhere in text the name i stands after a tab or
\* two whitespace characters and before a tab, two whitespace characters
\* or the end of the text ($ without re.M)
name_match(i, text) ==
  \E p \in 2..(Len(text) - Len(i) + 1) :
    /\ \/ text[p - 1] = "\t"
       \/ (p >= 3 /\ IsSpace(text[p - 1]) /\ IsSpace(text[p - 2]))
    /\ MatchAtI(text, p, i)
    /\ LET q == p + Len(i)
       IN \/ AtStringEnd(text, q)
          \/ (q <= Len(text) /\ text[q] = "\t")
          \/ (q + 1 <= Len(text) /\ IsSpace(text[q]) /\ IsSpace(text[q + 1]))

\* [i.lower() for i in list]
LowerAll(list) == [i \in 1..Len(list) |-> Lower(list[i])]

\* set([i.lower() for i in list]) for the names held in list: what
\* list(set(...)) is made of.  Python leaves the order of that list to the
\* hashes of the strings, which change from run to run, so a list built this
\* way is held as the set of its elements
LowerSet(names) == {Lower(i) : i \in names}

\* the names of keyword_list whose pattern matches the text
Matched(keyword_list, text) == {i \in keyword_list : name_match(i, text)}

\* affected_by without the lower-casing
AffectedBy_NoLower(keyword_list, text) == Matched(keyword_list, text)

\* the affected_by list update_affected computes for one block
AffectedBy(keyword_list, text) == LowerSet(Matched(keyword_list, text))

\* update_affected without the test of the body: every block counts as
\* invoking every name of the list
update_affected_NoMatch(keyword_list, data) ==
  [k \in 1..Len(data) |->
     [key |-> data[k].key,
      val |-> [affected_by |-> LowerSet(keyword_list)]
              @@ data[k].val]]

\* update_affected(keyword_list, data): a new index, every value a copy of
\* the old one with its affected_by list set.  keyword_list is given as the
\* set of the names of the list: the result does not depend on their order
\* or on how often a name is in the list
update_affected(keyword_list, data) ==
  [k \in 1..Len(data) |->
     [key |-> data[k].key,
      val |-> [affected_by |-> AffectedBy(keyword_list, data[k].val.text)]
              @@ data[k].val]]

\* list(s) for a set s: its elements once each, in any order
ListsOf(s) ==
  {l \in [1..Cardinality(s) -> s] : \A x \in s : \E i \in DOMAIN l : l[i] = x}

\* the indexes update_affected can return: the affected_by of every block
\* listed in one of its orders
RECURSIVE Listed(_)
Listed(updated_data) ==
  IF updated_data = <<>> THEN {<<>>}
  ELSE LET n == Len(updated_data)
           last == updated_data[n]
       IN {Append(rest, [key |-> last.key,
                         val |-> [last.val EXCEPT !.affected_by = l]]) :
             rest \in Listed(SubSeq(updated_data, 1, n - 1)),
             l \in ListsOf(last.val.affected_by)}

\* [get_path_basename(i) for i in resources]
Basenames(resources) ==
  [i \in 1..Len(resources) |-> get_path_basename(resources[i])]

\* what one worker of popularity_contest adds to use_count: the blocks of
\* the index that invoke the name and are in the file or import it
UseCount(name, path, index) ==
  Cardinality({k \in 1..Len(index) :
     /\ name_match(name, index[k].val.text)
     /\ \/ path = get_path_basename(index[k].val.path)
        \/ path \in Range(Basenames(index[k].val.resources))})

\* sorted(rank, key=lambda i: i[1]): by count, items of one count in the
\* order they had
sorted_by_count(rank) ==
  IF rank = <<>> THEN <<>>
  ELSE LET most == CHOOSE c \in {rank[i][2] : i \in 1..Len(rank)} :
                        \A j \in 1..Len(rank) : rank[j][2] <= c
           G[c \in 0..(most + 1)] ==
             IF c = 0 THEN <<>>
             ELSE G[c - 1] \o SelectSeq(rank, LAMBDA i : i[2] = c - 1)
       IN G[most + 1]

LitTest == <<"t","e","s","t">>

LitSuite == <<"s","u","i","t","e">>

LitSetup == <<"s","e","t","u","p">>

LitTeardown == <<"t","e","a","r","d","o","w","n">>

\* re.findall(r'(suite|test).+(setup|teardown)', name, re.I) is not empty:
\* suite or test, at least one character that is no line break, then setup
\* or teardown
not_name(name) ==
  \E p \in 1..Len(name), w \in {LitSuite, LitTest} :
    /\ MatchAtI(name, p, w)
    /\ \E q \in (p + Len(w) + 1)..Len(name), e \in {LitSetup, LitTeardown} :
         /\ MatchAtI(name, q, e)
         /\ \A j \in (p + Len(w))..(q - 1) : name[j] # "\n"

\* the list reversed
Reversed(list) == [i \in 1..Len(list) |-> list[Len(list) + 1 - i]]

\* the (name, count) pairs main prints under "Most common" and under "Least
\* common" for the index popularity_contest returned
Ranking(keyword_data) ==
  LET rank == sorted_by_count([k \in 1..Len(keyword_data) |->
                                 <<keyword_data[k].key,
                                   keyword_data[k].val.use_count>>])
      results == SelectSeq(rank, LAMBDA i : i[1] # <<>> /\ ~not_name(i[1]))
      n == Len(results)
  IN [most_common |-> Reversed(SubSeq(results, IF n > 10 THEN n - 9 ELSE 1, n)),
      least_common |-> SubSeq(results, 1, IF n > 10 THEN 10 ELSE n)]

(***************************************************************************)
(* robot_retag.py                                                          *)
(***************************************************************************)
LitCases == <<"c","a","s","e","s">>

\* r'\*{3}\s+?test\s+?cases\s+?\*{3}' (re.I) tried at p: the position just
\* past the match, 0 when it does not match there
TestCasesHeader(data, p) ==
  LET q1 == StripLeft(data, p + 3)
      q2 == StripLeft(data, q1 + Len(LitTest))
      q3 == StripLeft(data, q2 + Len(LitCases))
  IN IF /\ MatchAt(data, p, Stars3)
        /\ q1 > p + 3
        /\ MatchAtI(data, q1, LitTest)
        /\ q2 > q1 + Len(LitTest)
        /\ MatchAtI(data, q2, LitCases)
        /\ q3 > q2 + Len(LitCases)
        /\ MatchAt(data, q3, Stars3)
     THEN q3 + 3 ELSE 0

\* the places of data where a test-cases header starts a line
HeaderPlaces(data) ==
  {p \in 1..Len(data) : AtLineStart(data, p) /\ TestCasesHeader(data, p) # 0}

\* data_start: re.findall(r'^.*^\*{3}\s+?test\s+?cases\s+?\*{3}', data,
\* re.S | re.M | re.I), first match or '': everything up to the end of the
\* last header
data_start(data) ==
  IF HeaderPlaces(data) = {} THEN <<>>
  ELSE SubSeq(data, 1, TestCasesHeader(data, Max(HeaderPlaces(data))) - 1)

\* test_cases: re.findall(r'^\*{3}\s+?test\s+?cases\s+?\*{3}(.+)', data,
\* re.S | re.M | re.I), first match or '': everything after the first header
\* that has text after it
RetagSection(data) ==
  LET places == {p \in HeaderPlaces(data) : TestCasesHeader(data, p) <= Len(data)}
  IN IF places = {} THEN <<>>
     ELSE SubSeq(data, TestCasesHeader(data, Min(places)), Len(data))

\* re.findall(r'^([\w\[].+)#?', test): the first line of the block, NoneVal
\* when the list is empty (name[0] then raises IndexError)
RetagNameMatch(test) ==
  IF Len(test) >= 2 /\ (IsWord(test[1]) \/ test[1] = "[") /\ test[2] # "\n"
  THEN SubSeq(test, 1, LineEnd(test, 2) - 1)
  ELSE NoneVal

\* re.sub(r'(?<=\[Tags\])(.+)', repl, test) from position p on: the rest of
\* the line after every [Tags] that has text after it becomes repl
RECURSIVE SubTags(_, _, _)
SubTags(test, repl, p) ==
  LET hits == {q \in p..Len(test) :
                 MatchAt(test, q - Len(LitTags), LitTags) /\ test[q] # "\n"}
  IN IF hits = {} THEN SubSeq(test, p, Len(test))
     ELSE LET q == Min(hits)
              e == LineEnd(test, q)
          IN SubSeq(test, p, q - 1) \o repl \o SubTags(test, repl, e)

\* the block a test case is rewritten to
Retagged(test, id_match, name_match_, new_tags) ==
  LET name == Strip(RetagNameMatch(test))
      old_tags == TagsOf(test)
      test_id == TestIdOf(name, old_tags)
      repl == <<" ", " ">> \o Strip(Join(<<" ", " ">>, new_tags))
  IN IF Lower(name_match_) = Lower(name)
     THEN Strip(SubTags(test, repl, 1)) \o <<"\n", "\n">>
     ELSE IF test_id # NoneVal /\ test_id # <<>> /\ id_match = test_id
     THEN Strip(SubTags(test, repl, 1)) \o <<"\n", "\n">>
     ELSE Strip(test) \o <<"\n", "\n">>

\* retag_test_case(path, id_match, name_match, new_tags): the text written
\* back to the file, NoneVal when name[0] raises IndexError
retag_test_case(data, id_match, name_match_, new_tags) ==
  LET blocks == FindBlocks(RetagSection(data), 1)
      F[n \in 0..Len(blocks)] ==
        IF n = 0 THEN data_start(data) \o <<"\n">>
        ELSE F[n - 1] \o Retagged(blocks[n], id_match, name_match_, new_tags)
  IN IF \E n \in 1..Len(blocks) : RetagNameMatch(blocks[n]) = NoneVal
     THEN NoneVal
     ELSE F[Len(blocks)]

\* get_new_tags(): name.lower() -> (new, remove), a later row replacing an
\* earlier one; a row is <<id, name, new, remove>>
get_new_tags(rows) ==
  LET F[n \in 0..Len(rows)] ==
        IF n = 0 THEN <<>>
        ELSE DictUpdate(F[n - 1], Lower(rows[n][2]),
                        [new |-> rows[n][3], remove |-> rows[n][4]])
  IN F[Len(rows)]

\* unique_tags: the tags stripped, each kept where it first stands
unique_tags(tags) ==
  LET F[n \in 0..Len(tags)] ==
        IF n = 0 THEN <<>>
        ELSE IF Strip(tags[n]) \notin Range(F[n - 1])
        THEN Append(F[n - 1], Strip(tags[n])) ELSE F[n - 1]
  IN F[Len(tags)]

\* the tags main computes for one test case: the old tags without the ones to
\* remove, then the new ones, then the test id if missing, duplicates dropped
NewTagList(test_tags, test_id, new, remove) ==
  LET remove_tags == LowerAll(Split(remove))
      kept == SelectSeq(test_tags, LAMBDA t : Lower(t) \notin Range(remove_tags))
      tags1 == kept \o Split(new)
      tags2 == IF test_id = NoneVal \/ test_id = <<>> THEN tags1
               ELSE IF Lower(test_id) \notin Range(LowerAll(tags1))
               THEN Append(tags1, test_id) ELSE tags1
  IN unique_tags(tags2)

\* retag_list: one item for every test case of the index named in retag.csv
retag_list_of(test_case_data, name_tags) ==
  LET F[n \in 0..Len(test_case_data)] ==
        IF n = 0 THEN <<>>
        ELSE LET data == test_case_data[n].val
                 key == Lower(data.name)
             IN IF DictHas(name_tags, key)
                THEN Append(F[n - 1],
                       [path |-> data.path, tc_id |-> data.id, name |-> data.name,
                        test_tags |-> NewTagList(data.tags, data.id,
                                                 DictGet(name_tags, key).new,
                                                 DictGet(name_tags, key).remove)])
                ELSE F[n - 1]
  IN F[Len(test_case_data)]

(***************************************************************************)
(* The suite files the runs are given                                      *)
(***************************************************************************)
BasePath ==
  <<"p","/","b","a","s","e",".","r","o","b","o","t">>

\* the text of p/base.robot:
\*   |*** Settings ***
\*   |Library  x
\*   |
\*   |*** Keywords ***
\*   |Ka
\*   |    go  1
\*   |Ke
\*   |    Ka
\*   |Kf
\*   |    Ke
BaseText ==
  <<"*","*","*"," ","S","e","t","t","i","n","g","s"," ","*","*","*","\n",
    "L","i","b","r","a","r","y"," "," ","x","\n","\n","*","*","*"," ","K",
    "e","y","w","o","r","d","s"," ","*","*","*","\n","K","a","\n"," "," ",
    " "," ","g","o"," "," ","1","\n","K","e","\n"," "," "," "," ","K","a",
    "\n","K","f","\n"," "," "," "," ","K","e","\n">>

CommonPath ==
  <<"p","/","c","o","m","m","o","n",".","r","o","b","o","t">>

\* the text of p/common.robot:
\*   |*** Settings ***
\*   |Resource  base.robot
\*   |
\*   |*** Keywords ***
\*   |Kb
\*   |    Ka
CommonText ==
  <<"*","*","*"," ","S","e","t","t","i","n","g","s"," ","*","*","*","\n",
    "R","e","s","o","u","r","c","e"," "," ","b","a","s","e",".","r","o","b",
    "o","t","\n","\n","*","*","*"," ","K","e","y","w","o","r","d","s"," ",
    "*","*","*","\n","K","b","\n"," "," "," "," ","K","a","\n">>

SuiteAPath ==
  <<"p","/","s","u","i","t","e","_","a",".","r","o","b","o","t">>

\* the text of p/suite_a.robot:
\*   |*** Settings ***
\*   |Resource  r/common.robot
\*   |
\*   |*** Keywords ***
\*   |Kc
\*   |    Kb
\*   |
\*   |*** Test Cases ***
\*   |T1 tc_1
\*   |    [Tags]  a  B
\*   |    Kc
\*   |T2
\*   |    [Tags]  A
\*   |    GO
\*   |T3  # x
\*   |    go
SuiteAText ==
  <<"*","*","*"," ","S","e","t","t","i","n","g","s"," ","*","*","*","\n",
    "R","e","s","o","u","r","c","e"," "," ","r","/","c","o","m","m","o","n",
    ".","r","o","b","o","t","\n","\n","*","*","*"," ","K","e","y","w","o",
    "r","d","s"," ","*","*","*","\n","K","c","\n"," "," "," "," ","K","b",
    "\n","\n","*","*","*"," ","T","e","s","t"," ","C","a","s","e","s"," ",
    "*","*","*","\n","T","1"," ","t","c","_","1","\n"," "," "," "," ","[",
    "T","a","g","s","]"," "," ","a"," "," ","B","\n"," "," "," "," ","K",
    "c","\n","T","2","\n"," "," "," "," ","[","T","a","g","s","]"," "," ",
    "A","\n"," "," "," "," ","G","O","\n","T","3"," "," ","#"," ","x","\n",
    " "," "," "," ","g","o","\n">>

SuiteBPath ==
  <<"p","/","s","u","i","t","e","_","b",".","r","o","b","o","t">>

\* the text of p/suite_b.robot:
\*   |*** Settings ***
\*   |Library  y
\*   |
\*   |*** Keywords ***
\*   |Kd
\*   |    Ka
\*   |Kh
\*   |    Kd
\*   |
\*   |*** Test Cases ***
\*   |T4
\*   |    [Tags]  A  b
\*   |<TAB>Kd
\*   |T5
\*   |    [Tags]  b
\*   |    go
\*   |# end
\*   |    nop
\*   |T6
\*   |    [Tags]  a  b
\*   |    Kb  1
SuiteBText ==
  <<"*","*","*"," ","S","e","t","t","i","n","g","s"," ","*","*","*","\n",
    "L","i","b","r","a","r","y"," "," ","y","\n","\n","*","*","*"," ","K",
    "e","y","w","o","r","d","s"," ","*","*","*","\n","K","d","\n"," "," ",
    " "," ","K","a","\n","K","h","\n"," "," "," "," ","K","d","\n","\n","*",
    "*","*"," ","T","e","s","t"," ","C","a","s","e","s"," ","*","*","*",
    "\n","T","4","\n"," "," "," "," ","[","T","a","g","s","]"," "," ","A",
    " "," ","b","\n","\t","K","d","\n","T","5","\n"," "," "," "," ","[","T",
    "a","g","s","]"," "," ","b","\n"," "," "," "," ","g","o","\n","#"," ",
    "e","n","d","\n"," "," "," "," ","n","o","p","\n","T","6","\n"," "," ",
    " "," ","[","T","a","g","s","]"," "," ","a"," "," ","b","\n"," "," ",
    " "," ","K","b"," "," ","1","\n">>

DupPath ==
  <<"p","/","d","u","p",".","r","o","b","o","t">>

\* the text of p/dup.robot:
\*   |*** Settings ***
\*   |*** Keywords ***
\*   |Kb
\*   |    go
\*   |kb
\*   |    nop
DupText ==
  <<"*","*","*"," ","S","e","t","t","i","n","g","s"," ","*","*","*","\n",
    "*","*","*"," ","K","e","y","w","o","r","d","s"," ","*","*","*","\n",
    "K","b","\n"," "," "," "," ","g","o","\n","k","b","\n"," "," "," "," ",
    "n","o","p","\n">>

DashABPath ==
  <<"p","/","a","-","b",".","r","o","b","o","t">>

\* the text of p/a-b.robot:
\*   |*** Settings ***
\*   |*** Test Cases ***
\*   |T1 tc_1
\*   |    [Tags]  a
\*   |    go
DashABText ==
  <<"*","*","*"," ","S","e","t","t","i","n","g","s"," ","*","*","*","\n",
    "*","*","*"," ","T","e","s","t"," ","C","a","s","e","s"," ","*","*","*",
    "\n","T","1"," ","t","c","_","1","\n"," "," "," "," ","[","T","a","g",
    "s","]"," "," ","a","\n"," "," "," "," ","g","o","\n">>

UnderABPath ==
  <<"p","/","a","_","b",".","r","o","b","o","t">>

\* the text of p/a_b.robot:
\*   |*** Settings ***
\*   |*** Test Cases ***
\*   |t1 TC_1
\*   |    [Tags]  b
\*   |    nop
UnderABText ==
  <<"*","*","*"," ","S","e","t","t","i","n","g","s"," ","*","*","*","\n",
    "*","*","*"," ","T","e","s","t"," ","C","a","s","e","s"," ","*","*","*",
    "\n","t","1"," ","T","C","_","1","\n"," "," "," "," ","[","T","a","g",
    "s","]"," "," ","b","\n"," "," "," "," ","n","o","p","\n">>

NoSetKPath ==
  <<"p","/","n","o","s","e","t","_","k",".","r","o","b","o","t">>

\* the text of p/noset_k.robot:
\*   |*** Keywords ***
\*   |Kg
\*   |    go
NoSetKText ==
  <<"*","*","*"," ","K","e","y","w","o","r","d","s"," ","*","*","*","\n",
    "K","g","\n"," "," "," "," ","g","o","\n">>

NoSetTPath ==
  <<"p","/","n","o","s","e","t","_","t",".","r","o","b","o","t">>

\* the text of p/noset_t.robot:
\*   |*** Test Cases ***
\*   |T9
\*   |    go
NoSetTText ==
  <<"*","*","*"," ","T","e","s","t"," ","C","a","s","e","s"," ","*","*","*",
    "\n","T","9","\n"," "," "," "," ","g","o","\n">>

GonePath ==
  <<"g","o","n","e",".","r","o","b","o","t">>

\* the text of gone.robot:
\*   |
GoneText ==
  <<>>


\* one file of the project: its path, whether os.path.exists, its text
File(path, exists, data) == [path |-> path, exists |-> exists, data |-> data]

\* the files a project is put together from, in directory order
FilePool ==
  <<File(BasePath, TRUE, BaseText),
    File(CommonPath, TRUE, CommonText),
    File(SuiteAPath, TRUE, SuiteAText),
    File(SuiteBPath, TRUE, SuiteBText),
    File(DupPath, TRUE, DupText),
    File(DashABPath, TRUE, DashABText),
    File(UnderABPath, TRUE, UnderABText),
    File(NoSetKPath, TRUE, NoSetKText),
    File(NoSetTPath, TRUE, NoSetTText),
    File(GonePath, FALSE, GoneText)>>

\* the largest number of files of a directory
MaxFiles == 2

\* the files of FilePool picked by the set S of positions, in pool order
RECURSIVE Pick(_, _)
Pick(S, i) ==
  IF i > Len(FilePool) THEN <<>>
  ELSE IF i \in S THEN <<FilePool[i]>> \o Pick(S, i + 1)
  ELSE Pick(S, i + 1)

\* the list without its element at i
Without(list, i) == SubSeq(list, 1, i - 1) \o SubSeq(list, i + 1, Len(list))

\* the orders the items of a list can be put in
RECURSIVE Orders(_)
Orders(list) ==
  IF list = <<>> THEN {<<>>}
  ELSE UNION {{<<list[i]>> \o rest : rest \in Orders(Without(list, i))} :
                i \in 1..Len(list)}

\* the directory of the import chain: suite_a.robot imports common.robot,
\* which imports base.robot
Chain == <<FilePool[1], FilePool[2], FilePool[3]>>

\* what os.walk can list: the files of a directory of up to MaxFiles files,
\* or of the directory of the import chain, in whatever order the file
\* system gives them
Projects ==
  UNION {Orders(Pick(S, 1)) :
           S \in {T \in SUBSET {i \in 1..Len(FilePool) : FilePool[i].exists} :
                    Cardinality(T) <= MaxFiles}}
    \cup Orders(Chain)

\* os.getcwd(), the default of --input: the directory of the project
script_path == <<"p">>

\* get_robot_files(path): the lists it can return.  A path that ends in
\* .robot is put first, whether the file is there or not, and os.walk of
\* a file lists nothing; the directory of the project lists its files, and
\* os.walk of a directory that is not there lists nothing
get_robot_files(path) ==
  IF Len(path) >= Len(LitDotRobot)
     /\ MatchAt(path, Len(path) - Len(LitDotRobot) + 1, LitDotRobot)
  THEN {<<IF \E i \in 1..Len(FilePool) : FilePool[i].path = path
          THEN FilePool[CHOOSE i \in 1..Len(FilePool) : FilePool[i].path = path]
          ELSE File(path, FALSE, <<>>)>>}
  ELSE IF path \in {script_path, script_path \o <<"/">>} THEN Projects
  ELSE {<<>>}

\* --keyword: absent, or a name
Seeds == {NoneVal, <<>>, <<"G","o">>, <<"K","a">>}

\* --tags
TagLists == {<<>>, <<<<"A">>>>, <<<<"a">>, <<"b">>>>}

OptKeyword == <<"-","-","k","e","y","w","o","r","d">>

OptTags == <<"-","-","t","a","g","s">>

OptT == <<"-","t">>

OptInput == <<"-","-","i","n","p","u","t">>

OptI == <<"-","i">>

OptVerbose == <<"-","-","v","e","r","b","o","s","e">>

OptH == <<"-","h">>

OptHelp == <<"-","-","h","e","l","p">>

\* sys.argv[1:]: the command lines main is run with.  Those of the second
\* group name one file; those of the third hold an abbreviated option, a
\* value attached to its option, and values that look like negative
\* numbers; the last group is malformed, asks for the help, or gives
\* --input the value -- , which argparse stores as the empty list
CommandLines ==
  {(IF k = NoneVal THEN <<>> ELSE <<OptKeyword, k>>)
     \o (IF t = <<>> THEN <<>> ELSE <<OptT>> \o t) : k \in Seeds, t \in TagLists}
    \cup {<<OptTags, <<"A">>, OptI, GonePath, OptKeyword, <<"G","o">>>>,
          <<OptKeyword, <<"K","a">>, OptInput, BasePath>>}
    \cup {<<<<"-","-","k","e","y">>, <<"G","o">>, OptI \o SuiteAPath>>,
          <<OptKeyword, <<"-","1">>, OptT, <<"A">>, <<"-","1">>,
            OptInput \o <<"=">> \o BasePath>>}
    \cup {<<OptT>>, <<OptKeyword>>, <<OptVerbose>>, <<OptH>>,
          <<OptKeyword, <<"-","-">>, <<"G","o">>>>,
          <<<<"-","-","=","x">>>>, <<OptI \o <<"-","-">>>>}

\* the option strings of the parser main builds, -h and --help being added
\* by ArgumentParser itself
OptionStrings == {OptH, OptHelp, OptInput, OptI, OptKeyword, OptT, OptTags}

\* the attribute of the namespace the option stores into
DestOf(option_string) ==
  IF option_string \in {OptInput, OptI} THEN "input"
  ELSE IF option_string = OptKeyword THEN "keyword"
  ELSE IF option_string \in {OptT, OptTags} THEN "tags"
  ELSE "help"

\* the value argparse stores for the explicit argument '--' of an option
\* that takes one value: the empty list
EmptyList == <<"[]">>

\* the place of the first = of the token, 0 if it has none
EqualsAt(token) ==
  LET places == {i \in 1..Len(token) : token[i] = "="}
  IN IF places = {} THEN 0 ELSE Min(places)

\* re.match of '^-\d+$|^-\d*\.\d+$', $ being the end or the place before a
\* line break at the end
IsNegativeNumber(token) ==
  LET n == Len(token)
      ends == {n} \cup (IF n >= 1 /\ token[n] = "\n" THEN {n - 1} ELSE {})
  IN \E e \in ends :
       /\ e >= 2
       /\ token[1] = "-"
       /\ \/ \A i \in 2..e : IsDigit(token[i])
          \/ \E d \in 2..(e - 1) :
               /\ token[d] = "."
               /\ \A i \in (2..e) \ {d} : IsDigit(token[i])

\* an option found in a token
Optional(dest, explicit_arg) ==
  [pattern |-> "O", dest |-> dest, explicit_arg |-> explicit_arg]

\* a token that is an argument
Positional == [pattern |-> "A", dest |-> "", explicit_arg |-> NoneVal]

\* _get_option_tuples(token): a token of two dashes is the start of a long
\* option, its part after the first = being the explicit argument; a token
\* of one dash is a short option with the rest of the token as its
\* explicit argument
get_option_tuples(token) ==
  IF token[2] = "-"
  THEN LET eq == EqualsAt(token)
           option_prefix == IF eq = 0 THEN token ELSE SubSeq(token, 1, eq - 1)
           explicit_arg == IF eq = 0 THEN NoneVal
                           ELSE SubSeq(token, eq + 1, Len(token))
       IN {Optional(DestOf(o), explicit_arg) :
             o \in {x \in OptionStrings : StartsWith(x, option_prefix)}}
  ELSE {Optional(DestOf(o), SubSeq(token, 3, Len(token))) :
          o \in {x \in OptionStrings : x = SubSeq(token, 1, 2)}}

\* _parse_optional(token): the token is an argument (A), an option (O) of
\* the parser or of none ("unknown"), or ambiguous, which ends the program
parse_optional(token) ==
  IF token = <<>> \/ token[1] # "-" THEN Positional
  ELSE IF token \in OptionStrings THEN Optional(DestOf(token), NoneVal)
  ELSE IF Len(token) = 1 THEN Positional
  ELSE LET eq == EqualsAt(token)
           option_tuples == get_option_tuples(token)
       IN IF eq > 0 /\ SubSeq(token, 1, eq - 1) \in OptionStrings
          THEN Optional(DestOf(SubSeq(token, 1, eq - 1)),
                        SubSeq(token, eq + 1, Len(token)))
          ELSE IF Cardinality(option_tuples) > 1
          THEN [pattern |-> "O", dest |-> "ambiguous", explicit_arg |-> NoneVal]
          ELSE IF Cardinality(option_tuples) = 1
          THEN CHOOSE o \in option_tuples : TRUE
          ELSE IF IsNegativeNumber(token) THEN Positional
          ELSE IF \E i \in 1..Len(token) : token[i] = " " THEN Positional
          ELSE Optional("unknown", NoneVal)

\* the place of the first token -- , after which every token is an argument
DashDash(argv) ==
  Min({q \in 1..(Len(argv) + 1) : q = Len(argv) + 1 \/ argv[q] = <<"-","-">>})

\* the letter of the token at q in arg_strings_pattern
Pattern(argv, q) ==
  IF q = DashDash(argv) THEN "-"
  ELSE IF q > DashDash(argv) THEN "A"
  ELSE parse_optional(argv[q]).pattern

\* the first place after p where argv holds no argument, or its end: an
\* option takes its values from the tokens before it
ValuesEnd(argv, p) ==
  Min({q \in (p + 1)..(Len(argv) + 1) : q = Len(argv) + 1 \/ Pattern(argv, q) # "A"})

\* _get_values: the first -- is taken out of the values, which leaves the
\* empty list for an explicit argument --
OneValue(arg_string) == IF arg_string = <<"-","-">> THEN EmptyList ELSE arg_string

Values1(arg_strings) ==
  IF arg_strings = << <<"-","-">> >> THEN <<>> ELSE arg_strings

\* parse_args from the token at p on, args being the namespace so far.  An
\* option with an explicit argument takes it as its one value; without,
\* --input and --keyword need one argument after them and --tags takes
\* every argument up to the next option and needs one.  -h prints the help
\* and ends the program with SystemExit(0); an argument no option takes, a
\* token -- , an unknown or ambiguous option and a missing value end it
\* with SystemExit(2)
RECURSIVE ParseFrom(_, _, _)
ParseFrom(argv, p, args) ==
  IF p > Len(argv) THEN args
  ELSE LET o == IF p < DashDash(argv) THEN parse_optional(argv[p]) ELSE Positional
           q == ValuesEnd(argv, p)
           usage == [args EXCEPT !.raised = "SystemExit"]
       IN IF o.pattern = "A" \/ o.dest \in {"help", "unknown", "ambiguous"}
          THEN usage
          ELSE IF o.explicit_arg # NoneVal
          THEN ParseFrom(argv, p + 1,
                 IF o.dest = "tags"
                 THEN [args EXCEPT !.tags = Values1(<<o.explicit_arg>>)]
                 ELSE [args EXCEPT ![o.dest] = OneValue(o.explicit_arg)])
          ELSE IF q = p + 1 THEN usage
          ELSE IF o.dest = "tags"
          THEN ParseFrom(argv, q, [args EXCEPT !.tags = SubSeq(argv, p + 1, q - 1)])
          ELSE ParseFrom(argv, p + 2, [args EXCEPT ![o.dest] = argv[p + 1]])

\* parser.parse_args() for the parser main builds
parse_args(argv) ==
  ParseFrom(argv, 1, [input |-> script_path, keyword |-> NoneVal, tags |-> <<>>,
                      raised |-> ""])

Retag1Path ==
  <<"p","/","r","1",".","r","o","b","o","t">>

\* the text of p/r1.robot:
\*   |*** Settings ***
\*   |Library  x
\*   |
\*   |*** Test Cases ***
\*   |T1 tc_1
\*   |    [Tags]  a  B
\*   |    go
\*   |T2
\*   |    [Tags]  a
\*   |    go
Retag1Text ==
  <<"*","*","*"," ","S","e","t","t","i","n","g","s"," ","*","*","*","\n",
    "L","i","b","r","a","r","y"," "," ","x","\n","\n","*","*","*"," ","T",
    "e","s","t"," ","C","a","s","e","s"," ","*","*","*","\n","T","1"," ",
    "t","c","_","1","\n"," "," "," "," ","[","T","a","g","s","]"," "," ",
    "a"," "," ","B","\n"," "," "," "," ","g","o","\n","T","2","\n"," "," ",
    " "," ","[","T","a","g","s","]"," "," ","a","\n"," "," "," "," ","g",
    "o","\n">>

Retag2Path ==
  <<"p","/","r","2",".","r","o","b","o","t">>

\* the text of p/r2.robot:
\*   |*** Settings ***
\*   |Library  x
\*   |
\*   |*** Test Cases ***
\*   |T3
\*   |    go
\*   |T4  # n
\*   |    [Tags]  a
\*   |    go
Retag2Text ==
  <<"*","*","*"," ","S","e","t","t","i","n","g","s"," ","*","*","*","\n",
    "L","i","b","r","a","r","y"," "," ","x","\n","\n","*","*","*"," ","T",
    "e","s","t"," ","C","a","s","e","s"," ","*","*","*","\n","T","3","\n",
    " "," "," "," ","g","o","\n","T","4"," "," ","#"," ","n","\n"," "," ",
    " "," ","[","T","a","g","s","]"," "," ","a","\n"," "," "," "," ","g",
    "o","\n">>

Retag3Path ==
  <<"p","/","r","3",".","r","o","b","o","t">>

\* the text of p/r3.robot:
\*   |*** Settings ***
\*   |Library  x
\*   |
\*   |*** Test Cases ***
\*   |T5 tc_5  # n
\*   |    [Tags]  b
\*   |    go
\*   |
\*   |*** Keywords ***
\*   |Ka
\*   |    go
Retag3Text ==
  <<"*","*","*"," ","S","e","t","t","i","n","g","s"," ","*","*","*","\n",
    "L","i","b","r","a","r","y"," "," ","x","\n","\n","*","*","*"," ","T",
    "e","s","t"," ","C","a","s","e","s"," ","*","*","*","\n","T","5"," ",
    "t","c","_","5"," "," ","#"," ","n","\n"," "," "," "," ","[","T","a",
    "g","s","]"," "," ","b","\n"," "," "," "," ","g","o","\n","\n","*","*",
    "*"," ","K","e","y","w","o","r","d","s"," ","*","*","*","\n","K","a",
    "\n"," "," "," "," ","g","o","\n">>

Retag4Path ==
  <<"p","/","r","4",".","r","o","b","o","t">>

\* the text of p/r4.robot:
\*   |*** Settings ***
\*   |Library  x
\*   |
\*   |*** Test Cases ***
\*   |T6
\*   |    [Tags]  tc_6  a
\*   |    go
Retag4Text ==
  <<"*","*","*"," ","S","e","t","t","i","n","g","s"," ","*","*","*","\n",
    "L","i","b","r","a","r","y"," "," ","x","\n","\n","*","*","*"," ","T",
    "e","s","t"," ","C","a","s","e","s"," ","*","*","*","\n","T","6","\n",
    " "," "," "," ","[","T","a","g","s","]"," "," ","t","c","_","6"," "," ",
    "a","\n"," "," "," "," ","g","o","\n">>

Retag5Path ==
  <<"p","/","t","w","o",".","r","o","b","o","t">>

\* the text of p/two.robot, where two test cases have the test id tc_7:
\*   |*** Settings ***
\*   |*** Test Cases ***
\*   |A tc_7  # 1
\*   |  [Tags]  x
\*   |B  # 2
\*   |  [Tags]  tc_7  b
Retag5Text ==
  <<"*","*","*"," ","S","e","t","t","i","n","g","s"," ","*","*","*","\n",
    "*","*","*"," ","T","e","s","t"," ","C","a","s","e","s"," ","*","*","*",
    "\n","A"," ","t","c","_","7"," "," ","#"," ","1","\n"," "," ","[","T",
    "a","g","s","]"," "," ","x","\n","B"," "," ","#"," ","2","\n"," "," ",
    "[","T","a","g","s","]"," "," ","t","c","_","7"," "," ","b","\n">>

\* the names retag.csv can give in its second column
RetagNames ==
  {<<"T","1"," ","t","c","_","1">>,
   <<"t","2">>,
   <<"T","3">>,
   <<"T","4">>,
   <<"T","5"," ","t","c","_","5">>,
   <<"T","6">>,
   <<"A"," ","t","c","_","7">>}


\* the projects the retag tool is run on: one suite file each
RetagProjects ==
  {<<File(Retag1Path, TRUE, Retag1Text)>>,
   <<File(Retag2Path, TRUE, Retag2Text)>>,
   <<File(Retag3Path, TRUE, Retag3Text)>>,
   <<File(Retag4Path, TRUE, Retag4Text)>>,
   <<File(Retag5Path, TRUE, Retag5Text)>>}

\* the rows of retag.csv: id, name, new tags, tags to remove
RetagRows ==
  {<<<<>>, n, new, remove>> :
     n \in RetagNames,
     new \in {<<>>, <<"x">>},
     remove \in {<<>>, <<"A">>}}

\* the largest number of rows of retag.csv
MaxRows == 1

\* the lists of at most n elements of S
RECURSIVE SeqsUpTo(_, _)
SeqsUpTo(S, n) ==
  IF n = 0 THEN {<<>>}
  ELSE LET shorter == SeqsUpTo(S, n - 1)
       IN shorter \cup {Append(q, x) : q \in shorter, x \in S}

\* the names update_affected is called with
UpdateNames == {<<"g","o">>, <<"G","o">>, <<"K","a">>, <<"k","b">>}

\* the longest keyword_list update_affected is called with
MaxList == 2

\* the indexes update_affected is called with
UpdateIndexes ==
  {<<>>,
   get_keywords(<<FilePool[1], FilePool[2]>>).data,
   get_test_cases(<<FilePool[3]>>).data,
   get_test_cases(<<FilePool[4]>>).data}

(***************************************************************************)
(* affected_tests.main                                                     *)
(***************************************************************************)
VARIABLES
  argv,                 \* sys.argv[1:]
  robot_files,          \* get_robot_files(root_path)
  keyword,              \* args.keyword
  tags,                 \* args.tags, lower-cased
  pc,                   \* where main is
  raised,               \* the exception that ended main, "" if none
  printed,              \* the names of the DUPLICATE lines printed
  keyword_data,
  test_case_data,
  affected_count,
  keyword_blacklist,
  resource_blacklist,
  affected_keywords,
  affected_test_cases,
  iterations,           \* passes of the while loop made so far
  ranking,              \* the pairs printed as most and least common
  affected_csv,         \* the rows written to affected.csv, no row before
  \* a call of update_affected
  upd_keyword_list,     \* the argument keyword_list
  upd_data,             \* the argument data
  upd_result,           \* what the call returned, empty before it returns
  upd_pc,               \* "call" before the call, "return" after it
  \* robot_retag.main
  rt_files,             \* the suite files on disk
  rt_rows,              \* the rows of retag.csv
  rt_pc,                \* where main is
  rt_test_case_data,    \* test_case_data
  rt_retag_list,        \* the items of retag_list still to be done
  rt_block,             \* the block at whose input() retag_test_case waits, else 0
  rt_raised,            \* the exception that ended main, "" if none
  \* the test id of one test case
  id_name,              \* the name of the test case
  id_tags,              \* its tags
  id_result,            \* test_id
  id_pc,                \* "call" before test_id is computed, "return" after
  \* a call of popularity_contest
  pop_data,             \* the argument data
  pop_test_data,        \* the argument test_data
  pop_i,                \* the place in data.items() of the for loop
  pop_pc,               \* where popularity_contest is
  pop_name,             \* name
  pop_path,             \* path, which the workers read as a free variable
  pop_use_count,        \* d['use_count']
  pop_threads,          \* every Thread made so far, in order
  pop_updated,          \* updated_data
  \* a call of a function wrapped with blackbox_logger
  bb_spec,              \* inspect.getfullargspec(func): args and defaults
  bb_args,              \* *args of the call
  bb_kwargs,            \* **kwargs of the call
  bb_result,            \* what the wrapper returned or raised
  bb_pc,                \* "call" before the call, "return" after it
  \* a request of the RedFish client
  rf_verb,              \* get, patch, post or put
  rf_script,            \* what the calls of the session method do, in order
  rf_result,            \* what the request returned or raised
  rf_pc,                \* "call" before the request, "return" after it
  \* a call of get_post_codes
  pc_res,               \* what self.get(endpoint) returns or raises
  pc_gets,              \* how often self.get was called
  pc_result,            \* what get_post_codes returned or raised
  pc_pc,                \* "call" before the call, "return" after it
  \* a call of a function wrapped with retry(n)
  ry_n,                 \* n
  ry_retries,           \* retries
  ry_exception,         \* exception; "" while it is not bound
  ry_attempts,          \* what the calls of func did so far, in order
  ry_result,            \* what the wrapper returned or raised
  ry_pc,                \* where the wrapper is
  \* a call of update_firmware
  fw_wait,              \* the argument wait
  fw_res_json,          \* res_json
  fw_elapsed,           \* time.time() - time_start, in seconds
  fw_polls,             \* how often the task endpoint was asked
  fw_raised,            \* the last poll raised an exception
  fw_status,            \* status
  fw_pc,                \* where update_firmware is
  \* a call of a function decorated with robot_args
  ra_running,           \* Robot Framework was running when it was decorated
  ra_spec,              \* inspect.getfullargspec(func)
  ra_args,              \* *args of the call
  ra_kwargs,            \* **kwargs of the call
  ra_result,            \* what the call returned or raised
  ra_pc,                \* "call" before the call, "return" after it
  \* a call of recv_all
  rv_timeout,           \* timeout, in intervals
  rv_elapsed,           \* time.time() - time_start, in intervals
  rv_retries,           \* retries
  rv_res_all,           \* res_all: the chunks, each named by its attempt
  rv_attempts,          \* what the calls of recv gave: TRUE for data
  rv_pc,                \* where recv_all is
  \* a SimpleServer, its caller and its server thread
  sv_caller,            \* where the caller is
  sv_thread,            \* where the thread of __activate is
  sv_server,            \* self.__server: "None" or "httpd"
  sv_url,               \* self.url is set
  sv_shutdown_request,  \* the server's flag that shutdown() sets
  sv_is_shut_down,      \* the server's event that shutdown() waits for
  sv_served,            \* the requests the server has handled
  sv_raised,            \* the exception stop() raised
  sv_path,              \* self.path
  sv_port,              \* self.port
  sv_cwd,               \* the working directory of the process
  \* a call of consolidate_results
  cr_result_list,       \* the argument result_list
  cr_unique,            \* what consolidate_results returned
  cr_pc                 \* "call" before the call, "return" after it

mainVars ==
  <<argv, ranking, robot_files, keyword, tags, pc, raised, printed, keyword_data,
    test_case_data, affected_count, keyword_blacklist, resource_blacklist,
    affected_keywords, affected_test_cases, iterations, affected_csv>>

updVars == <<upd_keyword_list, upd_data, upd_result, upd_pc>>

rtVars ==
  <<rt_files, rt_rows, rt_pc, rt_test_case_data, rt_retag_list, rt_block,
    rt_raised>>

idVars == <<id_name, id_tags, id_result, id_pc>>

popVars ==
  <<pop_data, pop_test_data, pop_i, pop_pc, pop_name, pop_path, pop_use_count,
    pop_threads, pop_updated>>

bbVars == <<bb_spec, bb_args, bb_kwargs, bb_result, bb_pc>>

rfVars == <<rf_verb, rf_script, rf_result, rf_pc>>

pcVars == <<pc_res, pc_gets, pc_result, pc_pc>>

ryVars == <<ry_n, ry_retries, ry_exception, ry_attempts, ry_result, ry_pc>>

fwVars == <<fw_wait, fw_res_json, fw_elapsed, fw_polls, fw_raised, fw_status, fw_pc>>

raVars == <<ra_running, ra_spec, ra_args, ra_kwargs, ra_result, ra_pc>>

rvVars == <<rv_timeout, rv_elapsed, rv_retries, rv_res_all, rv_attempts, rv_pc>>

svVars ==
  <<sv_caller, sv_thread, sv_server, sv_url, sv_shutdown_request, sv_is_shut_down,
    sv_served, sv_raised, sv_path, sv_port, sv_cwd>>

crVars == <<cr_result_list, cr_unique, cr_pc>>

vars == <<mainVars, updVars, rtVars, idVars, popVars, bbVars, rfVars, pcVars,
  ryVars, fwVars, raVars, rvVars, svVars, crVars>>

\* nothing was ranked
NoRanking == [most_common |-> <<>>, least_common |-> <<>>]

\* affected_tests.main is not running
MainIdle ==
  /\ argv = <<>>
  /\ ranking = NoRanking
  /\ robot_files = <<>>
  /\ keyword = NoneVal
  /\ tags = <<>>
  /\ pc = "idle"
  /\ raised = ""
  /\ printed = <<>>
  /\ keyword_data = <<>>
  /\ test_case_data = <<>>
  /\ affected_count = 0
  /\ keyword_blacklist = {}
  /\ resource_blacklist = <<>>
  /\ affected_keywords = <<>>
  /\ affected_test_cases = <<>>
  /\ iterations = 0
  /\ affected_csv = <<>>

\* update_affected is not being called
UpdIdle ==
  /\ upd_keyword_list = <<>>
  /\ upd_data = <<>>
  /\ upd_result = <<>>
  /\ upd_pc = "idle"

\* robot_retag.main is not running
RtIdle ==
  /\ rt_files = <<>>
  /\ rt_rows = <<>>
  /\ rt_pc = "idle"
  /\ rt_test_case_data = <<>>
  /\ rt_retag_list = <<>>
  /\ rt_block = 0
  /\ rt_raised = ""

\* no test id is being computed
IdIdle ==
  /\ id_name = <<>>
  /\ id_tags = <<>>
  /\ id_result = NoneVal
  /\ id_pc = "idle"

\* popularity_contest is not being called
PopIdle ==
  /\ pop_data = <<>>
  /\ pop_test_data = <<>>
  /\ pop_i = 0
  /\ pop_pc = "idle"
  /\ pop_name = <<>>
  /\ pop_path = <<>>
  /\ pop_use_count = 0
  /\ pop_threads = <<>>
  /\ pop_updated = <<>>

\* no wrapped function is being called
BbIdle ==
  /\ bb_spec = <<>>
  /\ bb_args = <<>>
  /\ bb_kwargs = <<>>
  /\ bb_result = <<>>
  /\ bb_pc = "idle"

\* no request is being made
RfIdle ==
  /\ rf_verb = ""
  /\ rf_script = <<>>
  /\ rf_result = <<>>
  /\ rf_pc = "idle"

\* get_post_codes is not being called
PcIdle ==
  /\ pc_res = <<>>
  /\ pc_gets = 0
  /\ pc_result = <<>>
  /\ pc_pc = "idle"

\* no function wrapped with retry is being called
RyIdle ==
  /\ ry_n = 0
  /\ ry_retries = 0
  /\ ry_exception = ""
  /\ ry_attempts = <<>>
  /\ ry_result = <<>>
  /\ ry_pc = "idle"

\* update_firmware is not being called
FwIdle ==
  /\ fw_wait = FALSE
  /\ fw_res_json = <<>>
  /\ fw_elapsed = 0
  /\ fw_polls = 0
  /\ fw_raised = FALSE
  /\ fw_status = FALSE
  /\ fw_pc = "idle"

\* no function decorated with robot_args is being called
RaIdle ==
  /\ ra_running = FALSE
  /\ ra_spec = <<>>
  /\ ra_args = <<>>
  /\ ra_kwargs = <<>>
  /\ ra_result = <<>>
  /\ ra_pc = "idle"

\* recv_all is not being called
RvIdle ==
  /\ rv_timeout = 0
  /\ rv_elapsed = 0
  /\ rv_retries = 0
  /\ rv_res_all = <<>>
  /\ rv_attempts = <<>>
  /\ rv_pc = "idle"

\* no SimpleServer is in use
SvIdle ==
  /\ sv_caller = "idle"
  /\ sv_thread = "idle"
  /\ sv_server = "None"
  /\ sv_url = FALSE
  /\ sv_shutdown_request = FALSE
  /\ sv_is_shut_down = FALSE
  /\ sv_served = 0
  /\ sv_raised = ""
  /\ sv_path = ""
  /\ sv_port = 0
  /\ sv_cwd = ""

\* consolidate_results is not being called
CrIdle ==
  /\ cr_result_list = <<>>
  /\ cr_unique = <<>>
  /\ cr_pc = "idle"

\* what the steps of affected_tests.main leave alone
NotMain == <<updVars, rtVars, idVars, popVars, bbVars, rfVars, pcVars, ryVars,
  fwVars, raVars, rvVars, svVars, crVars>>

\* nothing else of the repository is running
MainAlone ==
  /\ UpdIdle
  /\ RtIdle
  /\ IdIdle
  /\ PopIdle
  /\ BbIdle
  /\ RfIdle
  /\ PcIdle
  /\ RyIdle
  /\ FwIdle
  /\ RaIdle
  /\ RvIdle
  /\ SvIdle
  /\ CrIdle

\* what main and the popularity_contest it calls leave alone
NotContest == <<updVars, rtVars, idVars, bbVars, rfVars, pcVars, ryVars,
  fwVars, raVars, rvVars, svVars, crVars>>

\* what a call of update_affected leaves alone
NotUpd == <<mainVars, rtVars, idVars, popVars, bbVars, rfVars, pcVars, ryVars,
  fwVars, raVars, rvVars, svVars, crVars>>

\* nothing else of the repository is running
UpdAlone ==
  /\ MainIdle
  /\ RtIdle
  /\ IdIdle
  /\ PopIdle
  /\ BbIdle
  /\ RfIdle
  /\ PcIdle
  /\ RyIdle
  /\ FwIdle
  /\ RaIdle
  /\ RvIdle
  /\ SvIdle
  /\ CrIdle

\* what the steps of robot_retag.main leave alone
NotRt == <<mainVars, updVars, idVars, popVars, bbVars, rfVars, pcVars, ryVars,
  fwVars, raVars, rvVars, svVars, crVars>>

\* nothing else of the repository is running
RtAlone ==
  /\ MainIdle
  /\ UpdIdle
  /\ IdIdle
  /\ PopIdle
  /\ BbIdle
  /\ RfIdle
  /\ PcIdle
  /\ RyIdle
  /\ FwIdle
  /\ RaIdle
  /\ RvIdle
  /\ SvIdle
  /\ CrIdle

\* what the computation of a test id leaves alone
NotId == <<mainVars, updVars, rtVars, popVars, bbVars, rfVars, pcVars, ryVars,
  fwVars, raVars, rvVars, svVars, crVars>>

\* nothing else of the repository is running
IdAlone ==
  /\ MainIdle
  /\ UpdIdle
  /\ RtIdle
  /\ PopIdle
  /\ BbIdle
  /\ RfIdle
  /\ PcIdle
  /\ RyIdle
  /\ FwIdle
  /\ RaIdle
  /\ RvIdle
  /\ SvIdle
  /\ CrIdle

\* what a call of popularity_contest leaves alone
NotPop == <<mainVars, updVars, rtVars, idVars, bbVars, rfVars, pcVars, ryVars,
  fwVars, raVars, rvVars, svVars, crVars>>

\* nothing else of the repository is running
PopAlone ==
  /\ MainIdle
  /\ UpdIdle
  /\ RtIdle
  /\ IdIdle
  /\ BbIdle
  /\ RfIdle
  /\ PcIdle
  /\ RyIdle
  /\ FwIdle
  /\ RaIdle
  /\ RvIdle
  /\ SvIdle
  /\ CrIdle

\* what a call of a wrapped function leaves alone
NotBb == <<mainVars, updVars, rtVars, idVars, popVars, rfVars, pcVars, ryVars,
  fwVars, raVars, rvVars, svVars, crVars>>

\* nothing else of the repository is running
BbAlone ==
  /\ MainIdle
  /\ UpdIdle
  /\ RtIdle
  /\ IdIdle
  /\ PopIdle
  /\ RfIdle
  /\ PcIdle
  /\ RyIdle
  /\ FwIdle
  /\ RaIdle
  /\ RvIdle
  /\ SvIdle
  /\ CrIdle

\* what a request of the RedFish client leaves alone
NotRf == <<mainVars, updVars, rtVars, idVars, popVars, bbVars, pcVars, ryVars,
  fwVars, raVars, rvVars, svVars, crVars>>

\* nothing else of the repository is running
RfAlone ==
  /\ MainIdle
  /\ UpdIdle
  /\ RtIdle
  /\ IdIdle
  /\ PopIdle
  /\ BbIdle
  /\ PcIdle
  /\ RyIdle
  /\ FwIdle
  /\ RaIdle
  /\ RvIdle
  /\ SvIdle
  /\ CrIdle

\* what a call of get_post_codes leaves alone
NotPc == <<mainVars, updVars, rtVars, idVars, popVars, bbVars, rfVars, ryVars,
  fwVars, raVars, rvVars, svVars, crVars>>

\* nothing else of the repository is running
PcAlone ==
  /\ MainIdle
  /\ UpdIdle
  /\ RtIdle
  /\ IdIdle
  /\ PopIdle
  /\ BbIdle
  /\ RfIdle
  /\ RyIdle
  /\ FwIdle
  /\ RaIdle
  /\ RvIdle
  /\ SvIdle
  /\ CrIdle

\* what a call of a function wrapped with retry leaves alone
NotRy == <<mainVars, updVars, rtVars, idVars, popVars, bbVars, rfVars, pcVars,
  fwVars, raVars, rvVars, svVars, crVars>>

\* nothing else of the repository is running
RyAlone ==
  /\ MainIdle
  /\ UpdIdle
  /\ RtIdle
  /\ IdIdle
  /\ PopIdle
  /\ BbIdle
  /\ RfIdle
  /\ PcIdle
  /\ FwIdle
  /\ RaIdle
  /\ RvIdle
  /\ SvIdle
  /\ CrIdle

\* what a call of update_firmware leaves alone
NotFw == <<mainVars, updVars, rtVars, idVars, popVars, bbVars, rfVars, pcVars,
  ryVars, raVars, rvVars, svVars, crVars>>

\* nothing else of the repository is running
FwAlone ==
  /\ MainIdle
  /\ UpdIdle
  /\ RtIdle
  /\ IdIdle
  /\ PopIdle
  /\ BbIdle
  /\ RfIdle
  /\ PcIdle
  /\ RyIdle
  /\ RaIdle
  /\ RvIdle
  /\ SvIdle
  /\ CrIdle

\* what a call of a function decorated with robot_args leaves alone
NotRa == <<mainVars, updVars, rtVars, idVars, popVars, bbVars, rfVars, pcVars,
  ryVars, fwVars, rvVars, svVars, crVars>>

\* nothing else of the repository is running
RaAlone ==
  /\ MainIdle
  /\ UpdIdle
  /\ RtIdle
  /\ IdIdle
  /\ PopIdle
  /\ BbIdle
  /\ RfIdle
  /\ PcIdle
  /\ RyIdle
  /\ FwIdle
  /\ RvIdle
  /\ SvIdle
  /\ CrIdle

\* what a call of recv_all leaves alone
NotRv == <<mainVars, updVars, rtVars, idVars, popVars, bbVars, rfVars, pcVars,
  ryVars, fwVars, raVars, svVars, crVars>>

\* nothing else of the repository is running
RvAlone ==
  /\ MainIdle
  /\ UpdIdle
  /\ RtIdle
  /\ IdIdle
  /\ PopIdle
  /\ BbIdle
  /\ RfIdle
  /\ PcIdle
  /\ RyIdle
  /\ FwIdle
  /\ RaIdle
  /\ SvIdle
  /\ CrIdle

\* what the caller and the thread of a SimpleServer leave alone
NotSv == <<mainVars, updVars, rtVars, idVars, popVars, bbVars, rfVars, pcVars,
  ryVars, fwVars, raVars, rvVars, crVars>>

\* nothing else of the repository is running
SvAlone ==
  /\ MainIdle
  /\ UpdIdle
  /\ RtIdle
  /\ IdIdle
  /\ PopIdle
  /\ BbIdle
  /\ RfIdle
  /\ PcIdle
  /\ RyIdle
  /\ FwIdle
  /\ RaIdle
  /\ RvIdle
  /\ CrIdle

\* what a call of consolidate_results leaves alone
NotCr == <<mainVars, updVars, rtVars, idVars, popVars, bbVars, rfVars, pcVars,
  ryVars, fwVars, raVars, rvVars, svVars>>

\* nothing else of the repository is running
CrAlone ==
  /\ MainIdle
  /\ UpdIdle
  /\ RtIdle
  /\ IdIdle
  /\ PopIdle
  /\ BbIdle
  /\ RfIdle
  /\ PcIdle
  /\ RyIdle
  /\ FwIdle
  /\ RaIdle
  /\ RvIdle
  /\ SvIdle

\* Python's truth value of args.keyword
Truthy(k) == k \notin {NoneVal, <<>>, EmptyList}

\* the while loop without the test of the count
LoopCond_NoCount == Truthy(keyword)

\* the condition of the while loop
LoopCond == Truthy(keyword) /\ affected_count # Cardinality(keyword_blacklist)

\* main is entered with its command line
Init ==
  /\ argv \in CommandLines
  /\ ranking = NoRanking
  /\ robot_files = <<>>
  /\ keyword = NoneVal
  /\ tags = <<>>
  /\ pc = "args"
  /\ raised = ""
  /\ printed = <<>>
  /\ keyword_data = <<>>
  /\ test_case_data = <<>>
  /\ affected_count = 0
  /\ keyword_blacklist = {}
  /\ resource_blacklist = <<>>
  /\ affected_keywords = <<>>
  /\ affected_test_cases = <<>>
  /\ iterations = 0
  /\ affected_csv = <<>>
  /\ MainAlone

\* args = parser.parse_args(), which ends main on a malformed command line;
\* keyword and tags are bound, the tags lower-cased, and the robot files
\* are listed; get_robot_files raises AttributeError at path.endswith when
\* the path is a list
ParseArgs ==
  /\ pc = "args"
  /\ LET args == parse_args(argv)
     IN IF args.raised # ""
        THEN /\ raised' = args.raised
             /\ pc' = "raised"
             /\ UNCHANGED <<keyword, tags, robot_files>>
        ELSE IF args.input = EmptyList
        THEN /\ keyword' = args.keyword
             /\ tags' = LowerAll(args.tags)
             /\ raised' = "AttributeError"
             /\ pc' = "raised"
             /\ UNCHANGED robot_files
        ELSE /\ keyword' = args.keyword
             /\ tags' = LowerAll(args.tags)
             /\ robot_files' \in get_robot_files(args.input)
             /\ pc' = "get_keywords"
             /\ UNCHANGED raised
  /\ UNCHANGED <<NotMain, argv, ranking, printed, keyword_data, test_case_data,
                 affected_count, keyword_blacklist, resource_blacklist,
                 affected_keywords, affected_test_cases, iterations, affected_csv>>

\* keyword_data = get_keywords(robot_files)
GetKeywords ==
  /\ pc = "get_keywords"
  /\ LET r == get_keywords(robot_files)
     IN /\ keyword_data' = r.data
        /\ printed' = printed \o r.printed
        /\ raised' = r.raised
        /\ pc' = IF r.raised = "" THEN "get_test_cases" ELSE "raised"
  /\ UNCHANGED <<NotMain, argv, ranking, robot_files, keyword, tags, test_case_data,
                 affected_count, keyword_blacklist, resource_blacklist,
                 affected_keywords, affected_test_cases, iterations, affected_csv>>

\* test_case_data = get_test_cases(robot_files)
GetTestCases ==
  /\ pc = "get_test_cases"
  /\ LET r == get_test_cases(robot_files)
     IN /\ test_case_data' = r.data
        /\ printed' = printed \o r.printed
        /\ raised' = r.raised
        /\ pc' = IF r.raised = "" THEN "set_up" ELSE "raised"
  /\ UNCHANGED <<NotMain, argv, ranking, robot_files, keyword, tags, keyword_data,
                 affected_count, keyword_blacklist, resource_blacklist,
                 affected_keywords, affected_test_cases, iterations, affected_csv>>

\* the loop variables are set up, the blacklist holding keyword and
\* keyword.lower()
SetUp ==
  /\ pc = "set_up"
  /\ affected_keywords' = <<>>
  /\ affected_test_cases' = <<>>
  /\ affected_count' = 0
  /\ keyword_blacklist' = {IF Truthy(keyword) THEN Lower(keyword) ELSE keyword}
  /\ resource_blacklist' = <<>>
  /\ pc' = "loop"
  /\ UNCHANGED <<NotMain, argv, ranking, robot_files, keyword, tags, raised, printed,
                 keyword_data, test_case_data, iterations, affected_csv>>

\* keyword.lower() in affected_by: the block invokes the seed itself
CallsSeed(k, affected_by) == Lower(k) \in affected_by

\* file_name in resource_blacklist
InBlacklistedFile(file_name, rb) == file_name \in Range(rb)

\* any([i in resource_blacklist for i in resource_list])
ImportsBlacklisted(resources, rb) ==
  \E i \in 1..Len(resources) : resources[i] \in Range(rb)

\* list(set([i.lower() for i in keyword_blacklist]))
Normalize(names) == LowerSet(names)

\* the loop variables main carries through the for loop of one pass
LoopState(kb, rb, ak) ==
  [keyword_blacklist |-> kb, resource_blacklist |-> rb, affected_keywords |-> ak]

\* the body of the for loop for one item (name, data) of updated_data
LoopBody(name, data, st) ==
  IF data.affected_by = {} THEN st
  ELSE
    LET keyword_name == data.name
        file_name == get_path_basename(data.path)
        resources == Basenames(data.resources)
        old == IF DictHas(st.affected_keywords, name)
               THEN DictGet(st.affected_keywords, name).affected_by ELSE {}
        affected_by == LowerSet(old \cup data.affected_by)
        kb == st.keyword_blacklist
        rb == st.resource_blacklist
    IN IF file_name = <<>> THEN st
       ELSE
         LET first == CallsSeed(keyword, affected_by)
             same_file == InBlacklistedFile(file_name, rb)
             imported == ImportsBlacklisted(resources, rb)
             kb2 == IF first \/ same_file \/ imported
                    THEN kb \cup {keyword_name} ELSE kb
             rb2 == IF first THEN Append(rb, file_name) ELSE rb
         IN LoopState(Normalize(kb2), rb2,
                      DictUpdate(st.affected_keywords, name,
                                 [affected_by |-> affected_by] @@ data))

\* the for loop with affected_by worked out anew for every item, from the
\* blacklist as the items before it left it
ForLoop_Live(updated_data, st0) ==
  LET F[n \in 0..Len(updated_data)] ==
        IF n = 0 THEN st0
        ELSE LoopBody(updated_data[n].key,
                      [updated_data[n].val EXCEPT !.affected_by =
                         AffectedBy(F[n - 1].keyword_blacklist,
                                    updated_data[n].val.text)],
                      F[n - 1])
  IN F[Len(updated_data)]

\* the for loop over updated_data.items()
ForLoop(updated_data, st0) ==
  LET F[n \in 0..Len(updated_data)] ==
        IF n = 0 THEN st0
        ELSE LoopBody(updated_data[n].key, updated_data[n].val, F[n - 1])
  IN F[Len(updated_data)]

\* one pass of the while loop
LoopPass ==
  /\ pc = "loop"
  /\ LoopCond
  /\ LET st == ForLoop(update_affected(keyword_blacklist, keyword_data),
                       LoopState(keyword_blacklist, resource_blacklist,
                                 affected_keywords))
     IN /\ affected_count' = Cardinality(keyword_blacklist)
        /\ keyword_blacklist' = st.keyword_blacklist
        /\ resource_blacklist' = st.resource_blacklist
        /\ affected_keywords' = st.affected_keywords
  /\ iterations' = iterations + 1
  /\ UNCHANGED <<NotMain, argv, ranking, robot_files, keyword, tags, pc, raised, printed, keyword_data,
                 test_case_data, affected_test_cases, affected_csv>>

\* the tags of the test case compared as written
TagsOk_CaseSensitive(required, test_tags) ==
  ~(required # <<>> /\ ~\A i \in 1..Len(required) :
                           required[i] \in Range(test_tags))

\* not (tags and not all([x in [y.lower() for y in test_tags] for x in tags]))
TagsOk(required, test_tags) ==
  ~(required # <<>> /\ ~\A i \in 1..Len(required) :
                           required[i] \in Range(LowerAll(test_tags)))

\* the test cases kept by the loop over update_affected(keyword_blacklist,
\* test_case_data)
Kept(updated_data) ==
  LET keep(data) == data.affected_by # {} /\ TagsOk(tags, data.tags)
      F[n \in 0..Len(updated_data)] ==
        IF n = 0 THEN <<>>
        ELSE IF keep(updated_data[n].val)
        THEN DictUpdate(F[n - 1], updated_data[n].key, updated_data[n].val)
        ELSE F[n - 1]
  IN F[Len(updated_data)]

\* the loop has ended and a keyword was given: the affected test cases
ScanTestCases ==
  /\ pc = "loop"
  /\ ~LoopCond
  /\ Truthy(keyword)
  /\ affected_test_cases' = Kept(update_affected(keyword_blacklist, test_case_data))
  /\ pc' = "report"
  /\ UNCHANGED <<NotMain, argv, ranking, robot_files, keyword, tags, raised, printed, keyword_data,
                 test_case_data, affected_count, keyword_blacklist,
                 resource_blacklist, affected_keywords, iterations, affected_csv>>

(***************************************************************************)
(* popularity_contest: its for loop and its worker threads                 *)
(***************************************************************************)
\* Thread(target=__thread, args=[data, name_match, d]): `of` remembers the
\* place in data.items() the thread was made at, `seen` the values of
\* path the worker has read
NewThread(of, data, name) ==
  [of |-> of, data |-> data, name_match |-> name, state |-> "new", pos |-> 1,
   loaded |-> -1, seen |-> {}]

\* the values the worker walks through
WorkerItems(thread) ==
  IF thread.data = "data" THEN pop_data ELSE pop_test_data

\* the worker counts the block v: the name matches its text and the block
\* is in the file of the keyword or in a file that imports it
WorkerCounts(thread, v) ==
  /\ name_match(thread.name_match, v.text)
  /\ \/ pop_path = get_path_basename(v.path)
     \/ pop_path \in Range(Basenames(v.resources))

Joined_NoWait(thread) == TRUE

\* t.join() returns for the thread
Joined(thread) == thread.state = "done"

\* the for loop takes the next item: name, path, d and name_match are bound
\* and the two Thread objects are made
PopSetup ==
  /\ pop_pc = "for"
  /\ pop_i <= Len(pop_data)
  /\ pop_name' = Lower(pop_data[pop_i].val.name)
  /\ pop_path' = get_path_basename(pop_data[pop_i].val.path)
  /\ pop_use_count' = 0
  /\ pop_threads' = pop_threads \o
       <<NewThread(pop_i, "data", Lower(pop_data[pop_i].val.name)),
         NewThread(pop_i, "test_data", Lower(pop_data[pop_i].val.name))>>
  /\ pop_pc' = "start1"
  /\ UNCHANGED <<NotPop, pop_data, pop_test_data, pop_i, pop_updated>>

\* [t.start() for t in threads]: the next thread of the list is started
PopStart ==
  /\ pop_pc \in {"start1", "start2"}
  /\ LET t == IF pop_pc = "start1" THEN Len(pop_threads) - 1 ELSE Len(pop_threads)
     IN pop_threads' = [pop_threads EXCEPT ![t].state = "running"]
  /\ pop_pc' = IF pop_pc = "start1" THEN "start2" ELSE "join1"
  /\ UNCHANGED <<NotPop, pop_data, pop_test_data, pop_i, pop_name, pop_path,
                 pop_use_count, pop_updated>>

\* [t.join() for t in threads]: the next thread of the list has ended
PopJoin ==
  /\ pop_pc \in {"join1", "join2"}
  /\ LET t == IF pop_pc = "join1" THEN Len(pop_threads) - 1 ELSE Len(pop_threads)
     IN Joined(pop_threads[t])
  /\ pop_pc' = IF pop_pc = "join1" THEN "join2" ELSE "update"
  /\ UNCHANGED <<NotPop, pop_data, pop_test_data, pop_i, pop_name, pop_path,
                 pop_use_count, pop_threads, pop_updated>>

\* updated_data.update({key: d}), and the for loop goes on
PopUpdate ==
  /\ pop_pc = "update"
  /\ pop_updated' = DictUpdate(pop_updated, pop_data[pop_i].key,
                               [use_count |-> pop_use_count] @@ pop_data[pop_i].val)
  /\ pop_i' = pop_i + 1
  /\ pop_pc' = "for"
  /\ UNCHANGED <<NotPop, pop_data, pop_test_data, pop_name, pop_path,
                 pop_use_count, pop_threads>>

\* return updated_data
PopReturn ==
  /\ pop_pc = "for"
  /\ pop_i > Len(pop_data)
  /\ pop_pc' = "done"
  /\ UNCHANGED <<NotPop, pop_data, pop_test_data, pop_i, pop_name, pop_path,
                 pop_use_count, pop_threads, pop_updated>>

\* a running worker takes a step of __thread: it ends after the last
\* value; it looks at the next value and, when it counts, reads
\* d['use_count']; or it stores the count it read, plus one
PopWorker(t) ==
  /\ pop_threads[t].state = "running"
  /\ LET thread == pop_threads[t]
         items == WorkerItems(thread)
     IN IF thread.loaded >= 0
        THEN /\ pop_use_count' = thread.loaded + 1
             /\ pop_threads' = [pop_threads EXCEPT ![t].loaded = -1,
                                                    ![t].pos = thread.pos + 1]
        ELSE IF thread.pos > Len(items)
        THEN /\ pop_threads' = [pop_threads EXCEPT ![t].state = "done"]
             /\ UNCHANGED pop_use_count
        ELSE LET v == items[thread.pos].val
                 seen == IF name_match(thread.name_match, v.text)
                         THEN thread.seen \cup {pop_path}
                         ELSE thread.seen
             IN /\ pop_threads' =
                     IF WorkerCounts(thread, v)
                     THEN [pop_threads EXCEPT ![t].loaded = pop_use_count,
                                              ![t].seen = seen]
                     ELSE [pop_threads EXCEPT ![t].pos = thread.pos + 1,
                                              ![t].seen = seen]
                /\ UNCHANGED pop_use_count
  /\ UNCHANGED <<NotPop, pop_data, pop_test_data, pop_i, pop_pc, pop_name,
                 pop_path, pop_updated>>

PopWorkers == \E t \in 1..Len(pop_threads) : PopWorker(t)

(***************************************************************************)
(* affected_tests.main, the ranking                                        *)
(***************************************************************************)
\* no keyword was given: main calls popularity_contest(keyword_data,
\* test_case_data), whose for loop and worker threads take their steps
\* while main waits for the call
RankCall ==
  /\ pc = "loop"
  /\ ~Truthy(keyword)
  /\ pc' = "contest"
  /\ pop_data' = keyword_data
  /\ pop_test_data' = test_case_data
  /\ pop_i' = 1
  /\ pop_pc' = "for"
  /\ UNCHANGED <<NotContest, pop_name, pop_path, pop_use_count, pop_threads,
                 pop_updated>>
  /\ UNCHANGED <<argv, ranking, robot_files, keyword, tags, raised, printed,
                 keyword_data, test_case_data, affected_count, keyword_blacklist,
                 resource_blacklist, affected_keywords, affected_test_cases,
                 iterations, affected_csv>>

\* popularity_contest has returned: keyword_data is the index it made, the
\* keywords are ranked by use and the most and the least used are printed;
\* nothing is left of the call
RankReturn ==
  /\ pc = "contest"
  /\ pop_pc = "done"
  /\ keyword_data' = pop_updated
  /\ ranking' = Ranking(pop_updated)
  /\ pc' = "report"
  /\ pop_data' = <<>>
  /\ pop_test_data' = <<>>
  /\ pop_i' = 0
  /\ pop_pc' = "idle"
  /\ pop_name' = <<>>
  /\ pop_path' = <<>>
  /\ pop_use_count' = 0
  /\ pop_threads' = <<>>
  /\ pop_updated' = <<>>
  /\ UNCHANGED NotContest
  /\ UNCHANGED <<argv, robot_files, keyword, tags, raised, printed,
                 test_case_data, affected_count, keyword_blacklist,
                 resource_blacklist, affected_keywords, affected_test_cases,
                 iterations, affected_csv>>

\* the header row of affected.csv
headers ==
  <<<<"S","u","i","t","e">>,
    <<"T","e","s","t"," ","C","a","s","e"," ","I","D">>,
    <<"T","e","s","t"," ","C","a","s","e"," ","N","a","m","e">>,
    <<"T","a","g","s">>>>

\* csv.writer writes None as the empty field
CsvField(v) == IF v = NoneVal THEN <<>> ELSE v

\* row_list started empty
row_list_NoHeader(affected) ==
  [n \in 1..Len(affected) |->
     <<CsvField(affected[n].val.suite), CsvField(affected[n].val.id),
       CsvField(affected[n].val.name), Join(<<" ">>, affected[n].val.tags)>>]

\* row_list: the header row, then one row for each item of affected_test_cases
row_list(affected) ==
  <<headers>> \o
  [n \in 1..Len(affected) |->
     <<CsvField(affected[n].val.suite), CsvField(affected[n].val.id),
       CsvField(affected[n].val.name), Join(<<" ">>, affected[n].val.tags)>>]

\* affected.csv is written
WriteCsv ==
  /\ pc = "report"
  /\ affected_csv' = row_list(affected_test_cases)
  /\ pc' = "done"
  /\ UNCHANGED <<NotMain, argv, ranking, robot_files, keyword, tags, raised, printed, keyword_data,
                 test_case_data, affected_count, keyword_blacklist,
                 resource_blacklist, affected_keywords, affected_test_cases,
                 iterations>>

Next ==
  \/ ParseArgs
  \/ GetKeywords
  \/ GetTestCases
  \/ SetUp
  \/ LoopPass
  \/ ScanTestCases
  \/ RankCall
  \/ PopSetup
  \/ PopStart
  \/ PopWorkers
  \/ PopJoin
  \/ PopUpdate
  \/ PopReturn
  \/ RankReturn
  \/ WriteCsv

Spec == Init /\ [][Next]_vars

\* main has neither returned nor raised, and is not waiting for
\* popularity_contest
Running ==
  \/ pc \in {"args", "get_keywords", "get_test_cases", "set_up", "loop", "report"}
  \/ pc = "contest" /\ pop_pc = "done"

\* a statement of main is executed: every action of main moves pc or counts
\* a pass of the while loop, and one of them can be taken wherever main is
\* running
MainStep ==
  /\ Running
  /\ pc' \in {"get_keywords", "get_test_cases", "set_up", "loop", "contest",
             "report", "done", "raised"}
  /\ iterations' \in {iterations, iterations + 1}
  /\ <<pc', iterations'>> # <<pc, iterations>>

\* a step of popularity_contest or of one of its worker threads
ContestStep ==
  PopSetup \/ PopStart \/ PopWorkers \/ PopJoin \/ PopUpdate \/ PopReturn

\* main is sequential code and runs on until it returns or raises, and so
\* do popularity_contest and the threads it has started
FairSpec ==
  Spec /\ WF_<<pc, iterations>>(MainStep) /\ WF_popVars(ContestStep)

(***************************************************************************)
(* A call of update_affected on its own                                    *)
(***************************************************************************)
UpdInit ==
  /\ upd_keyword_list \in SeqsUpTo(UpdateNames, MaxList)
  /\ upd_data \in UpdateIndexes
  /\ upd_result = <<>>
  /\ upd_pc = "call"
  /\ UpdAlone

\* updated_data = update_affected(keyword_list, data)
UpdCall ==
  /\ upd_pc = "call"
  /\ upd_result' \in Listed(update_affected(Range(upd_keyword_list), upd_data))
  /\ upd_pc' = "return"
  /\ UNCHANGED <<NotUpd, upd_keyword_list, upd_data>>

UpdNext == UpdCall

UpdSpec == UpdInit /\ [][UpdNext]_vars

(***************************************************************************)
(* robot_retag.main                                                        *)
(***************************************************************************)
RtInit ==
  /\ rt_files \in RetagProjects
  /\ rt_rows \in SeqsUpTo(RetagRows, MaxRows)
  /\ rt_pc = "collect"
  /\ rt_test_case_data = <<>>
  /\ rt_retag_list = <<>>
  /\ rt_block = 0
  /\ rt_raised = ""
  /\ RtAlone

\* the file at path holds data
WriteFile(files, path, data) ==
  [i \in 1..Len(files) |->
     IF files[i].path = path THEN [files[i] EXCEPT !.data = data] ELSE files[i]]

\* the text of the file at path
ReadFile(files, path) ==
  files[CHOOSE i \in 1..Len(files) : files[i].path = path].data

\* the suite files are parsed, retag.csv is read and retag_list is made
RtCollect ==
  /\ rt_pc = "collect"
  /\ LET r == get_test_cases(rt_files)
     IN /\ rt_test_case_data' = r.data
        /\ rt_raised' = r.raised
        /\ rt_retag_list' =
             IF r.raised # "" THEN <<>>
             ELSE retag_list_of(r.data, get_new_tags(rt_rows))
        /\ rt_pc' = IF r.raised = "" THEN "retag" ELSE "raised"
  /\ UNCHANGED <<NotRt, rt_files, rt_rows, rt_block>>

\* the test case of the block is not the one named but has the test id
\* asked for: the branch that prints a warning and calls input()
TakesIdBranch(test, id_match, name_match_) ==
  LET name == Strip(RetagNameMatch(test))
      test_id == TestIdOf(name, TagsOf(test))
  IN /\ Lower(name_match_) # Lower(name)
     /\ test_id # NoneVal /\ test_id # <<>> /\ id_match = test_id

\* the next input('(enter to continue)') of retag_test_case after the block
\* after: the first later block that takes the id branch, with no block up
\* to it raising IndexError; 0 when the for loop comes to no further input()
NextInput(data, id_match, name_match_, after) ==
  LET blocks == FindBlocks(RetagSection(data), 1)
      waits == {n \in (after + 1)..Len(blocks) :
                  /\ \A m \in 1..n : RetagNameMatch(blocks[m]) # NoneVal
                  /\ TakesIdBranch(blocks[n], id_match, name_match_)}
  IN IF waits = {} THEN 0 ELSE CHOOSE n \in waits : \A m \in waits : n <= m

\* retag_test_case goes on to its end for the next item of retag_list: it
\* raises IndexError, or writes the file and main takes the next item
RetagEnds ==
  LET item == Head(rt_retag_list)
      new_data == retag_test_case(ReadFile(rt_files, item.path), item.tc_id,
                                  item.name, item.test_tags)
  IN /\ rt_block' = 0
     /\ IF new_data = NoneVal
        THEN /\ rt_raised' = "IndexError"
             /\ rt_pc' = "raised"
             /\ UNCHANGED <<rt_files, rt_retag_list>>
        ELSE /\ rt_files' = WriteFile(rt_files, item.path, new_data)
             /\ rt_retag_list' = Tail(rt_retag_list)
             /\ rt_pc' = "retag"
             /\ UNCHANGED rt_raised

\* retag_test_case(path, tc_id, name, test_tags) for the next item of
\* retag_list: the file is read, and the for loop over the blocks either
\* comes to an input() and waits there, or runs to its end
RtRetag ==
  /\ rt_pc = "retag"
  /\ rt_retag_list # <<>>
  /\ LET item == Head(rt_retag_list)
         n == NextInput(ReadFile(rt_files, item.path), item.tc_id, item.name, 0)
     IN IF n # 0
        THEN /\ rt_pc' = "input"
             /\ rt_block' = n
             /\ UNCHANGED <<rt_files, rt_retag_list, rt_raised>>
        ELSE RetagEnds
  /\ UNCHANGED <<NotRt, rt_rows, rt_test_case_data>>

\* input() returns a line and the for loop goes on, to the input() of a
\* later block or to its end, or standard input is at its end: EOFError,
\* with the file not written
RtInput ==
  /\ rt_pc = "input"
  /\ \/ LET item == Head(rt_retag_list)
            n == NextInput(ReadFile(rt_files, item.path), item.tc_id,
                           item.name, rt_block)
        IN IF n # 0
           THEN /\ rt_block' = n
                /\ UNCHANGED <<rt_files, rt_retag_list, rt_pc, rt_raised>>
           ELSE RetagEnds
     \/ /\ rt_raised' = "EOFError"
        /\ rt_pc' = "raised"
        /\ rt_block' = 0
        /\ UNCHANGED <<rt_files, rt_retag_list>>
  /\ UNCHANGED <<NotRt, rt_rows, rt_test_case_data>>

\* retag_list is done: main returns
RtReturn ==
  /\ rt_pc = "retag"
  /\ rt_retag_list = <<>>
  /\ rt_pc' = "done"
  /\ UNCHANGED <<NotRt, rt_files, rt_rows, rt_test_case_data, rt_retag_list,
                 rt_block, rt_raised>>

RtNext ==
  \/ RtCollect
  \/ RtRetag
  \/ RtInput
  \/ RtReturn

RtSpec == RtInit /\ [][RtNext]_vars

(***************************************************************************)
(* The test id of a test case on its own                                   *)
(***************************************************************************)
\* the names of test cases: 'T1', 'T1 tc_1', 'TC_2-3 x', 'tc_ a', 'a tc_1 tc_2'
IdNames ==
  {<<"T","1">>,
   <<"T","1"," ","t","c","_","1">>,
   <<"T","C","_","2","-","3"," ","x">>,
   <<"t","c","_"," ","a">>,
   <<"a"," ","t","c","_","1"," ","t","c","_","2">>}

\* the tags of test cases: 'a', 'tc_9', 'TC_x', 'tc_', 'Tc_7'
IdTags ==
  {<<"a">>,
   <<"t","c","_","9">>,
   <<"T","C","_","x">>,
   <<"t","c","_">>,
   <<"T","c","_","7">>}

\* the largest number of tags of a test case
MaxTags == 2

IdInit ==
  /\ id_name \in IdNames
  /\ id_tags \in SeqsUpTo(IdTags, MaxTags)
  /\ id_result = NoneVal
  /\ id_pc = "call"
  /\ IdAlone

\* test_id is computed from the name and the tags of the block
IdCall ==
  /\ id_pc = "call"
  /\ id_result' = TestIdOf(id_name, id_tags)
  /\ id_pc' = "return"
  /\ UNCHANGED <<NotId, id_name, id_tags>>

IdNext == IdCall

IdSpec == IdInit /\ [][IdNext]_vars

(***************************************************************************)
(* popularity_contest with its worker threads                              *)
(***************************************************************************)
PopAPath == <<"a",".","r","o","b","o","t">>

\* the text of a.robot:
\*   |*** Settings ***
\*   |Library  x
\*   |
\*   |*** Keywords ***
\*   |Ka
\*   |    Kb
\*   |Kb
\*   |    go
\*   |
\*   |*** Test Cases ***
\*   |T1
\*   |    Kb
PopAText ==
  <<"*","*","*"," ","S","e","t","t","i","n","g","s"," ","*","*","*","\n",
    "L","i","b","r","a","r","y"," "," ","x","\n","\n","*","*","*"," ","K",
    "e","y","w","o","r","d","s"," ","*","*","*","\n","K","a","\n"," "," ",
    " "," ","K","b","\n","K","b","\n"," "," "," "," ","g","o","\n","\n","*",
    "*","*"," ","T","e","s","t"," ","C","a","s","e","s"," ","*","*","*",
    "\n","T","1","\n"," "," "," "," ","K","b","\n">>

PopBPath == <<"b",".","r","o","b","o","t">>

\* the text of b.robot:
\*   |*** Settings ***
\*   |Resource  a.robot
\*   |
\*   |*** Keywords ***
\*   |Kc
\*   |    Kb
\*   |
\*   |*** Test Cases ***
\*   |T2
\*   |    Kb
\*   |    Kc
PopBText ==
  <<"*","*","*"," ","S","e","t","t","i","n","g","s"," ","*","*","*","\n",
    "R","e","s","o","u","r","c","e"," "," ","a",".","r","o","b","o","t",
    "\n","\n","*","*","*"," ","K","e","y","w","o","r","d","s"," ","*","*",
    "*","\n","K","c","\n"," "," "," "," ","K","b","\n","\n","*","*","*"," ",
    "T","e","s","t"," ","C","a","s","e","s"," ","*","*","*","\n","T","2",
    "\n"," "," "," "," ","K","b","\n"," "," "," "," ","K","c","\n">>

\* the projects popularity_contest is called on
PopProjects ==
  {<<File(PopAPath, TRUE, PopAText)>>,
   <<File(PopBPath, TRUE, PopBText)>>,
   <<File(PopAPath, TRUE, PopAText), File(PopBPath, TRUE, PopBText)>>,
   <<File(PopBPath, TRUE, PopBText), File(PopAPath, TRUE, PopAText)>>}

PopInit ==
  /\ \E files \in PopProjects :
       /\ pop_data = get_keywords(files).data
       /\ pop_test_data = get_test_cases(files).data
  /\ pop_i = 1
  /\ pop_pc = "for"
  /\ pop_name = <<>>
  /\ pop_path = <<>>
  /\ pop_use_count = 0
  /\ pop_threads = <<>>
  /\ pop_updated = <<>>
  /\ PopAlone

PopNext ==
  \/ PopSetup
  \/ PopStart
  \/ PopJoin
  \/ PopUpdate
  \/ PopReturn
  \/ PopWorkers

PopSpec == PopInit /\ [][PopNext]_vars

(***************************************************************************)
(* helpers.py: blackbox_logger                                             *)
(***************************************************************************)
\* the most parameters a wrapped function has
MaxParams == 2

\* the largest argument or default value
MaxValue == 1

ParamNames == <<"a", "b", "c", "d">>

Values == 0..MaxValue

\* the signatures: n parameters of which the last k have defaults, as
\* inspect.getfullargspec reports them
Signatures ==
  {s \in {[args |-> SubSeq(ParamNames, 1, n), defaults |-> ds] :
            n \in 0..MaxParams, ds \in SeqsUpTo(Values, MaxParams)} :
     Len(s.defaults) <= Len(s.args)}

\* the default of the j-th parameter, when it has one
HasDefault(spec, j) == j > Len(spec.args) - Len(spec.defaults)

DefaultOf(spec, j) == spec.defaults[j - (Len(spec.args) - Len(spec.defaults))]

\* the keyword arguments over the given names, in the order of the names
RECURSIVE KwargsOver(_)
KwargsOver(names) ==
  IF names = <<>> THEN {<<>>}
  ELSE LET rest == KwargsOver(Tail(names))
       IN rest \cup {<<[key |-> Head(names), val |-> v]>> \o r :
                       v \in Values, r \in rest}

\* func(*args, **kwargs) for the functions of test_helpers.py: a function
\* without parameters returns True, one with parameters returns the list of
\* them; each parameter is bound to its positional argument, else to its
\* keyword argument, else to its default; a TypeError otherwise
func(spec, args, kwargs) ==
  LET n == Len(spec.args)
      bound(j) == j <= Len(args) \/ DictHas(kwargs, spec.args[j]) \/ HasDefault(spec, j)
  IN IF \/ Len(args) > n
        \/ \E j \in 1..n : j <= Len(args) /\ DictHas(kwargs, spec.args[j])
        \/ \E k \in DictKeys(kwargs) : k \notin Range(spec.args)
        \/ \E j \in 1..n : ~bound(j)
     THEN [ret |-> <<>>, raised |-> "TypeError"]
     ELSE [ret |-> IF n = 0 THEN TRUE
                   ELSE [j \in 1..n |->
                           IF j <= Len(args) THEN args[j]
                           ELSE IF DictHas(kwargs, spec.args[j])
                           THEN DictGet(kwargs, spec.args[j])
                           ELSE DefaultOf(spec, j)],
           raised |-> ""]

\* the for loop of wrapper from the parameter at place j on: a positional
\* argument is popped for the parameter while there is one; after that
\* defaults[i] is taken when no more parameters are left than defaults
RECURSIVE Unpack(_, _, _, _, _)
Unpack(spec, j, func_args, i, func_kwargs) ==
  IF j > Len(spec.args) THEN func_kwargs
  ELSE IF Len(func_args) > 0
  THEN Unpack(spec, j + 1, Tail(func_args), i,
              DictUpdate(func_kwargs, spec.args[j], Head(func_args)))
  ELSE IF Len(spec.defaults) > 0 /\ Len(spec.args) - j + 1 <= Len(spec.defaults)
  THEN Unpack(spec, j + 1, func_args, i + 1,
              DictUpdate(func_kwargs, spec.args[j], spec.defaults[i + 1]))
  ELSE Unpack(spec, j + 1, func_args, i, func_kwargs)

\* {**func_kwargs, **kwargs}
RECURSIVE DictMerge(_, _)
DictMerge(d, e) ==
  IF e = <<>> THEN d ELSE DictMerge(DictUpdate(d, Head(e).key, Head(e).val), Tail(e))

\* wrapper(*args, **kwargs): the call func(**func_kwargs); an exception of
\* func is raised again as Exception
wrapper(spec, args, kwargs) ==
  LET func_kwargs == DictMerge(Unpack(spec, 1, args, 0, <<>>), kwargs)
      r == func(spec, <<>>, func_kwargs)
  IN IF r.raised # "" THEN [ret |-> <<>>, raised |-> "Exception"] ELSE r

BbInit ==
  /\ bb_spec \in Signatures
  /\ bb_args \in SeqsUpTo(Values, Len(bb_spec.args))
  /\ bb_kwargs \in KwargsOver(SubSeq(bb_spec.args, Len(bb_args) + 1, Len(bb_spec.args)))
  /\ func(bb_spec, bb_args, bb_kwargs).raised = ""
  /\ bb_result = <<>>
  /\ bb_pc = "call"
  /\ BbAlone

BbCall ==
  /\ bb_pc = "call"
  /\ bb_result' = <<wrapper(bb_spec, bb_args, bb_kwargs)>>
  /\ bb_pc' = "return"
  /\ UNCHANGED <<NotBb, bb_spec, bb_args, bb_kwargs>>

BbNext == BbCall

BbSpec == BbInit /\ [][BbNext]_vars

(***************************************************************************)
(* redfish_client.py: a request through __retry and __reauth               *)
(***************************************************************************)
\* the most calls of the session method one request makes: two by __reauth
\* for each of the two calls of __retry
ScriptLen == 4

Verbs == {"get", "patch", "post", "put"}

\* what a call of self.client.<verb> does: it returns a response with a
\* status code and a body, or raises
Returns(status, json) == [exc |-> "", status |-> status, json |-> json]

Raises(exc) == [exc |-> exc, status |-> 0, json |-> ""]

Outcomes ==
  {Returns(200, "foo"), Returns(401, "unauthorized"), Returns(404, ""),
   Raises("ConnectionError"), Raises("RemoteDisconnected"), Raises("ReadTimeout")}

\* a response object; `call` remembers which call of the session method
\* returned it, 0 for a response the client made up
Response(status, json, call) == [status |-> status, json |-> json, call |-> call]

NoResponse == Response(0, "", 0)

\* Response.ok
Ok(res) == res.status < 400

\* __readtimeout_response
readtimeout_response == Response(599, "CLIENT_TIMEOUT", 0)

\* the wrapper of __reauth handing on a 401 response as it is
reauth_NoRepeat(script, calls, auths) ==
  LET first == script[calls + 1]
  IN IF first.exc # ""
     THEN [res |-> NoResponse, raised |-> first.exc, calls |-> calls + 1,
           auths |-> auths]
     ELSE [res |-> Response(first.status, first.json, calls + 1), raised |-> "",
           calls |-> calls + 1, auths |-> auths]

\* the wrapper of __reauth, when `calls` calls of the session method and
\* `auths` calls of __auth were made before it: the request, and after a
\* 401 response __auth and the request once more
reauth(script, calls, auths) ==
  LET first == script[calls + 1]
      second == script[calls + 2]
  IN IF first.exc # ""
     THEN [res |-> NoResponse, raised |-> first.exc, calls |-> calls + 1,
           auths |-> auths]
     ELSE IF first.status # 401
     THEN [res |-> Response(first.status, first.json, calls + 1), raised |-> "",
           calls |-> calls + 1, auths |-> auths]
     ELSE IF second.exc # ""
     THEN [res |-> NoResponse, raised |-> second.exc, calls |-> calls + 2,
           auths |-> auths + 1]
     ELSE [res |-> Response(second.status, second.json, calls + 2), raised |-> "",
           calls |-> calls + 2, auths |-> auths + 1]

\* the wrapper of __retry with ConnectionError left to the caller
retry_NoReconnect(script) ==
  LET try == reauth(script, 0, 1)
  IN IF try.raised = "RemoteDisconnected"
     THEN reauth(script, try.calls, try.auths)
     ELSE IF try.raised = "ReadTimeout"
     THEN [try EXCEPT !.res = readtimeout_response, !.raised = ""]
     ELSE try

\* the wrapper of __retry around the wrapper of __reauth; __init__ has
\* called __auth once.  The exceptions of the try block are handled; the
\* handlers' own calls are not inside a try block
retry(script) ==
  LET try == reauth(script, 0, 1)
  IN IF try.raised = "RemoteDisconnected"
     THEN reauth(script, try.calls, try.auths)
     ELSE IF try.raised = "ConnectionError"
     THEN reauth(script, try.calls, try.auths + 1)
     ELSE IF try.raised = "ReadTimeout"
     THEN [try EXCEPT !.res = readtimeout_response, !.raised = ""]
     ELSE try

RfInit ==
  /\ rf_verb \in Verbs
  /\ rf_script \in [1..ScriptLen -> Outcomes]
  /\ rf_result = <<>>
  /\ rf_pc = "call"
  /\ RfAlone

\* self.get(url), self.patch(url), self.post(url) or self.put(url)
RfRequest ==
  /\ rf_pc = "call"
  /\ rf_result' = <<retry(rf_script)>>
  /\ rf_pc' = "return"
  /\ UNCHANGED <<NotRf, rf_verb, rf_script>>

RfNext == RfRequest

RfSpec == RfInit /\ [][RfNext]_vars

(***************************************************************************)
(* redfish_client.py: get_post_codes                                       *)
(***************************************************************************)
\* the most entries in the Members of a response
MaxEntries == 2

LitPostCode == <<"P","O","S","T"," ","C","o","d","e">>

\* the Message of a log entry; NoneVal for an entry without one
Messages ==
  {<<"B","i","z",":"," ","B","a","z",";"," ","P","O","S","T"," ","C","o","d","e",":"," ","0","x","1","2","3",";"," ","F","o","o",":"," ","B","a","r">>,
   <<"P","O","S","T"," ","C","o","d","e"," ","7">>,
   <<"P","O","S","T"," ","C","o","d","e",":",":"," ","\t","9","_","a","-","b">>,
   <<"b","o","o","t"," ","o","k">>,
   <<"P","O","S","T"," ","C","o","d","e",":"," ">>,
   <<"p","o","s","t"," ","c","o","d","e",":"," ","1">>,
   <<"P","O","S","T"," ","C","o","d","e",":"," ","1"," ","P","O","S","T"," ","C","o","d","e",":"," ","2">>,
   <<"P","O","S","T"," ","C","o","d","e","P","O","S","T"," ","C","o","d","e",":","3",".">>,
   NoneVal}

Entries == {[Message |-> m] : m \in Messages}

\* the end of the longest run of characters of the class from position p on
RECURSIVE RunEnd(_, _, _)
RunEnd(s, p, word) ==
  IF p <= Len(s) /\ (IF word THEN IsWord(s[p]) ELSE (s[p] = ":" \/ IsSpace(s[p])))
  THEN RunEnd(s, p + 1, word)
  ELSE p

\* re.findall(r'POST Code[:\s]+(\w+)\b', message) from position p on: the
\* groups of the matches, from left to right
RECURSIVE code_match(_, _)
code_match(message, p) ==
  IF p > Len(message) THEN <<>>
  ELSE LET q == p + Len(LitPostCode)
           r == RunEnd(message, q, FALSE)
           e == RunEnd(message, r, TRUE)
       IN IF MatchAt(message, p, LitPostCode) /\ r > q /\ e > r
          THEN <<SubSeq(message, r, e - 1)>> \o code_match(message, e)
          ELSE code_match(message, p + 1)

\* the for loop of get_post_codes over entry_list, post_codes being a list;
\* re.findall raises TypeError for a message that is None
RECURSIVE CollectCodes(_, _)
CollectCodes(entry_list, post_codes) ==
  IF entry_list = <<>> THEN [ret |-> post_codes, none |-> FALSE, raised |-> ""]
  ELSE LET message == Head(entry_list).Message
       IN IF message = NoneVal
          THEN [ret |-> <<>>, none |-> FALSE, raised |-> "TypeError"]
          ELSE LET code == code_match(message, 1)
               IN CollectCodes(Tail(entry_list),
                               IF code # <<>> THEN Append(post_codes, code[1])
                               ELSE post_codes)

\* get_post_codes(system) when self.get(endpoint) gives res; `none` says
\* that the value returned is None
get_post_codes(res) ==
  IF res.raised # "" THEN [ret |-> <<>>, none |-> FALSE, raised |-> res.raised]
  ELSE IF res.status = 200 THEN CollectCodes(res.Members, <<>>)
  ELSE IF res.status = 204 THEN [ret |-> <<>>, none |-> FALSE, raised |-> ""]
  ELSE [ret |-> <<>>, none |-> TRUE, raised |-> ""]

\* what self.get gives: a response with the Members of its body, or an
\* exception that __retry does not handle
PcResponses ==
  {[status |-> 200, Members |-> ms, raised |-> ""] : ms \in SeqsUpTo(Entries, MaxEntries)}
  \cup {[status |-> s, Members |-> <<>>, raised |-> ""] : s \in {204, 404, 401, 599}}
  \cup {[status |-> 0, Members |-> <<>>, raised |-> "ConnectionError"]}

PcInit ==
  /\ pc_res \in PcResponses
  /\ pc_gets = 0
  /\ pc_result = <<>>
  /\ pc_pc = "call"
  /\ PcAlone

PcCall ==
  /\ pc_pc = "call"
  /\ pc_gets' = pc_gets + 1
  /\ pc_result' = <<get_post_codes(pc_res)>>
  /\ pc_pc' = "return"
  /\ UNCHANGED <<NotPc, pc_res>>

PcNext == PcCall

PcSpec == PcInit /\ [][PcNext]_vars

(***************************************************************************)
(* helpers.py: retry                                                       *)
(***************************************************************************)
\* the largest n of retry(n)
MaxAttempts == 4

\* what a call of func does: it returns a value or raises an exception
Succeeds(value) == [exc |-> "", value |-> value]

Fails(exc) == [exc |-> exc, value |-> 0]

Attempts ==
  {Succeeds(v) : v \in {0, 1}} \cup {Fails(e) : e \in {"ValueError", "KeyError"}}

\* while retries > 0, passing once more than it should
Again_OneMore(retries) == retries >= 0

\* while retries > 0
Again(retries) == retries > 0

RyInit ==
  /\ ry_n \in 0..MaxAttempts
  /\ ry_retries = ry_n
  /\ ry_exception = ""
  /\ ry_attempts = <<>>
  /\ ry_result = <<>>
  /\ ry_pc = "while"
  /\ RyAlone

\* the try block: func is called; its value is returned, or its exception
\* is kept
RyAttempt ==
  /\ ry_pc = "while"
  /\ Again(ry_retries)
  /\ \E a \in Attempts :
       /\ ry_attempts' = Append(ry_attempts, a)
       /\ IF a.exc = ""
          THEN /\ ry_result' = <<[value |-> a.value, raised |-> "", attempts |-> 0,
                                  cause |-> ""]>>
               /\ ry_pc' = "return"
               /\ UNCHANGED ry_exception
          ELSE /\ ry_exception' = a.exc
               /\ ry_pc' = "sleep"
               /\ UNCHANGED ry_result
  /\ UNCHANGED <<NotRy, ry_n, ry_retries>>

\* time.sleep(60); retries -= 1
RySleep ==
  /\ ry_pc = "sleep"
  /\ ry_retries' = ry_retries - 1
  /\ ry_pc' = "while"
  /\ UNCHANGED <<NotRy, ry_n, ry_exception, ry_attempts, ry_result>>

\* after the loop: Exception(msg) is raised, msg naming n and the last
\* exception; with no exception bound, e = exception raises
\* UnboundLocalError
RyRaise ==
  /\ ry_pc = "while"
  /\ ~Again(ry_retries)
  /\ ry_result' =
       IF ry_exception = ""
       THEN <<[value |-> 0, raised |-> "UnboundLocalError", attempts |-> 0, cause |-> ""]>>
       ELSE <<[value |-> 0, raised |-> "Exception", attempts |-> ry_n,
               cause |-> ry_exception]>>
  /\ ry_pc' = "raised"
  /\ UNCHANGED <<NotRy, ry_n, ry_retries, ry_exception, ry_attempts>>

RyNext ==
  \/ RyAttempt
  \/ RySleep
  \/ RyRaise

RySpec == RyInit /\ [][RyNext]_vars

\* func and time.sleep return, and the wrapper goes on
RyFairSpec == RySpec /\ WF_ryVars(RyNext)

(***************************************************************************)
(* redfish_client.py: update_firmware                                      *)
(***************************************************************************)
\* the seconds the method waits for the task
WaitLimit == 1800

\* the seconds between two polls
PollSleep == 30

\* the seconds a poll takes at most
MaxPollTime == 30

LitRunning == <<"r","u","n","n","i","n","g">>

LitCompleted == <<"c","o","m","p","l","e","t","e","d">>

LitOk == <<"o","k">>

\* the body of a response, read with res_json.get('PercentComplete', 0),
\* res_json.get('TaskState', '') and res_json.get('TaskStatus', '')
TaskJson(percent, state, status) ==
  [PercentComplete |-> percent, TaskState |-> state, TaskStatus |-> status]

\* {}
EmptyJson == TaskJson(0, <<>>, <<>>)

TaskJsons ==
  {TaskJson(p, s, t) :
     p \in {0, 50, 100},
     s \in {<<"R","u","n","n","i","n","g">>, <<"C","o","m","p","l","e","t","e","d">>, <<"E","x","c","e","p","t","i","o","n">>, <<>>},
     t \in {<<"O","K">>, <<"C","r","i","t","i","c","a","l">>, <<>>}}

\* the condition of the while loop
Waiting ==
  /\ fw_wait
  /\ fw_res_json.PercentComplete < 100
  /\ Lower(fw_res_json.TaskState) = LitRunning
  /\ fw_elapsed < WaitLimit

\* the status the method returns
StatusOf(wait, res_json) ==
  IF /\ wait
     /\ res_json.PercentComplete = 100
     /\ Lower(res_json.TaskState) = LitCompleted
     /\ Lower(res_json.TaskStatus) = LitOk
  THEN TRUE
  ELSE IF /\ Lower(res_json.TaskState) = LitRunning
          /\ Lower(res_json.TaskStatus) = LitOk
  THEN TRUE
  ELSE FALSE

FwInit ==
  /\ fw_wait \in BOOLEAN
  /\ fw_res_json = EmptyJson
  /\ fw_elapsed = 0
  /\ fw_polls = 0
  /\ fw_raised = FALSE
  /\ fw_status = FALSE
  /\ fw_pc = "post"
  /\ FwAlone

\* the file is posted; res_json is the body of the response
FwPost ==
  /\ fw_pc = "post"
  /\ fw_res_json' \in TaskJsons
  /\ fw_pc' = "while"
  /\ UNCHANGED <<NotFw, fw_wait, fw_elapsed, fw_polls, fw_raised, fw_status>>

\* a pass of the while loop: time.sleep(30), then the task endpoint is
\* asked; res_json is the body of the response, or {} when the request or
\* res.json() raised
FwPoll ==
  /\ fw_pc = "while"
  /\ Waiting
  /\ \E took \in {0, MaxPollTime} : fw_elapsed' = fw_elapsed + PollSleep + took
  /\ fw_polls' = fw_polls + 1
  /\ \/ fw_res_json' \in TaskJsons /\ fw_raised' = FALSE
     \/ fw_res_json' = EmptyJson /\ fw_raised' = TRUE
  /\ UNCHANGED <<NotFw, fw_wait, fw_status, fw_pc>>

\* the loop has ended: status is worked out and returned
FwReturn ==
  /\ fw_pc = "while"
  /\ ~Waiting
  /\ fw_status' = StatusOf(fw_wait, fw_res_json)
  /\ fw_pc' = "return"
  /\ UNCHANGED <<NotFw, fw_wait, fw_res_json, fw_elapsed, fw_polls, fw_raised>>

FwNext ==
  \/ FwPost
  \/ FwPoll
  \/ FwReturn

FwSpec == FwInit /\ [][FwNext]_vars

(***************************************************************************)
(* robot_helpers.py: robot_args                                            *)
(***************************************************************************)
\* the value of ${example}; no argument of a call is equal to it
RobotValue == MaxValue + 1

\* robot_kwargs
robot_kwargs == <<[key |-> "example", val |-> RobotValue]>>

\* the parameter lists of the decorated functions: up to three different
\* names, the API name 'example' among them or not, in every order
RaSignatures ==
  {[args |-> names, defaults |-> <<>>] :
     names \in {s \in SeqsUpTo({"example", "a", "b"}, 3) :
                  \A i, j \in 1..Len(s) : i # j => s[i] # s[j]}}

\* the first for loop of wrapper from the parameter at place j on: the
\* parameters of the API take their values of robot_kwargs
RECURSIVE Prefill(_, _, _)
Prefill(spec, j, func_kwargs) ==
  IF j > Len(spec.args) THEN func_kwargs
  ELSE Prefill(spec, j + 1,
               IF DictHas(robot_kwargs, spec.args[j])
               THEN DictUpdate(func_kwargs, spec.args[j],
                               DictGet(robot_kwargs, spec.args[j]))
               ELSE func_kwargs)

\* the second for loop of wrapper from the parameter at place j on
RECURSIVE UnpackArgs(_, _, _, _, _)
UnpackArgs(spec, j, args, i, func_kwargs) ==
  IF j > Len(spec.args) THEN func_kwargs
  ELSE IF DictHas(func_kwargs, spec.args[j])
  THEN UnpackArgs(spec, j + 1, args,
                  IF Len(args) >= Len(func_kwargs) THEN i + 1 ELSE i, func_kwargs)
  ELSE IF Len(args) > i
  THEN UnpackArgs(spec, j + 1, args, i + 1,
                  DictUpdate(func_kwargs, spec.args[j], args[i + 1]))
  ELSE UnpackArgs(spec, j + 1, args, i, func_kwargs)

\* the function robot_args returns, called with args and kwargs: the
\* wrapper, or func itself when Robot Framework is not running
robot_args(running, spec, args, kwargs) ==
  IF running
  THEN func(spec, <<>>,
            DictMerge(UnpackArgs(spec, 1, args, 0, Prefill(spec, 1, <<>>)), kwargs))
  ELSE func(spec, args, kwargs)

RaInit ==
  /\ ra_running \in BOOLEAN
  /\ ra_spec \in RaSignatures
  /\ ra_args \in SeqsUpTo(Values, Len(ra_spec.args))
  /\ \E names \in SeqsUpTo(Range(ra_spec.args), 1) : ra_kwargs \in KwargsOver(names)
  /\ ra_result = <<>>
  /\ ra_pc = "call"
  /\ RaAlone

RaCall ==
  /\ ra_pc = "call"
  /\ ra_result' = <<robot_args(ra_running, ra_spec, ra_args, ra_kwargs)>>
  /\ ra_pc' = "return"
  /\ UNCHANGED <<NotRa, ra_running, ra_spec, ra_args, ra_kwargs>>

RaNext == RaCall

RaSpec == RaInit /\ [][RaNext]_vars

(***************************************************************************)
(* magicssh.py: recv_all                                                   *)
(***************************************************************************)
\* the longest timeout, in intervals
MaxIntervals == 7

\* the empty attempts after which the data is taken to be complete
Rechecks == 3

RvInit ==
  /\ rv_timeout \in 1..MaxIntervals
  /\ rv_elapsed = 0
  /\ rv_retries = Rechecks
  /\ rv_res_all = <<>>
  /\ rv_attempts = <<>>
  /\ rv_pc = "while"
  /\ RvAlone

\* the first half of a pass of the while loop: recv gives data or nothing
\* and res_all grows; time.sleep(interval) is entered
RvAttempt ==
  /\ rv_pc = "while"
  /\ rv_elapsed < rv_timeout
  /\ \E data \in BOOLEAN :
       /\ rv_attempts' = Append(rv_attempts, data)
       /\ rv_res_all' = IF data THEN Append(rv_res_all, Len(rv_attempts) + 1)
                         ELSE rv_res_all
  /\ rv_pc' = "sleep"
  /\ UNCHANGED <<NotRv, rv_timeout, rv_elapsed, rv_retries>>

\* time.sleep(interval) is over: the loop is left when retries is used up,
\* retries is counted down after an empty attempt and set back after data
RvSleep ==
  /\ rv_pc = "sleep"
  /\ rv_elapsed' = rv_elapsed + 1
  /\ IF rv_retries <= 0
     THEN rv_pc' = "return" /\ UNCHANGED rv_retries
     ELSE IF ~rv_attempts[Len(rv_attempts)]
     THEN rv_retries' = rv_retries - 1 /\ rv_pc' = "while"
     ELSE rv_retries' = Rechecks /\ rv_pc' = "while"
  /\ UNCHANGED <<NotRv, rv_timeout, rv_res_all, rv_attempts>>

\* the timeout has passed: return res_all
RvTimeout ==
  /\ rv_pc = "while"
  /\ rv_elapsed >= rv_timeout
  /\ rv_pc' = "return"
  /\ UNCHANGED <<NotRv, rv_timeout, rv_elapsed, rv_retries, rv_res_all, rv_attempts>>

RvNext ==
  \/ RvAttempt
  \/ RvSleep
  \/ RvTimeout

RvSpec == RvInit /\ [][RvNext]_vars

(***************************************************************************)
(* simple_server.py: SimpleServer with its server thread                   *)
(***************************************************************************)
\* the most requests the server handles
MaxRequests == 4

\* the argument path: none, a directory, or a file
SvPaths == {"None", "/srv", "/srv/image.bin"}

SvPorts == {8080, 8081}

\* self.path as __init__ leaves it: the working directory when no path is
\* given, the directory of a path that is a file
PathOf(path) ==
  IF path = "None" THEN "/cwd"
  ELSE IF path = "/srv/image.bin" THEN "/srv"
  ELSE path

\* after __init__
SvInit ==
  /\ \E path \in SvPaths : sv_path = PathOf(path)
  /\ sv_port \in SvPorts
  /\ sv_cwd = "/cwd"
  /\ sv_caller = "start"
  /\ sv_thread = "new"
  /\ sv_server = "None"
  /\ sv_url = FALSE
  /\ sv_shutdown_request = FALSE
  /\ sv_is_shut_down = FALSE
  /\ sv_served = 0
  /\ sv_raised = ""
  /\ SvAlone

\* start(): the thread is made and started
SvStart ==
  /\ sv_caller = "start"
  /\ sv_caller' = "started"
  /\ sv_thread' = "chdir"
  /\ UNCHANGED <<NotSv, sv_path, sv_port, sv_cwd, sv_server, sv_url, sv_shutdown_request, sv_is_shut_down,
                 sv_served, sv_raised>>

\* __activate: os.chdir(self.path) and self.url
SvChdir ==
  /\ sv_thread = "chdir"
  /\ sv_cwd' = sv_path
  /\ sv_url' = TRUE
  /\ sv_thread' = "bind"
  /\ UNCHANGED <<NotSv, sv_path, sv_port, sv_caller, sv_server, sv_shutdown_request, sv_is_shut_down,
                 sv_served, sv_raised>>

\* __activate: TCPServer(...) binds the port, or fails and ends the thread
SvBind ==
  /\ sv_thread = "bind"
  /\ sv_thread' \in {"assign", "failed"}
  /\ UNCHANGED <<NotSv, sv_path, sv_port, sv_cwd, sv_caller, sv_server, sv_url, sv_shutdown_request,
                 sv_is_shut_down, sv_served, sv_raised>>

\* __activate: self.__server = httpd
SvAssign ==
  /\ sv_thread = "assign"
  /\ sv_server' = "httpd"
  /\ sv_thread' = "serve"
  /\ UNCHANGED <<NotSv, sv_path, sv_port, sv_cwd, sv_caller, sv_url, sv_shutdown_request, sv_is_shut_down,
                 sv_served, sv_raised>>

\* serve_forever() begins: the event is cleared
SvServe ==
  /\ sv_thread = "serve"
  /\ sv_is_shut_down' = FALSE
  /\ sv_thread' = "serving"
  /\ UNCHANGED <<NotSv, sv_path, sv_port, sv_cwd, sv_caller, sv_server, sv_url, sv_shutdown_request,
                 sv_served, sv_raised>>

\* serve_forever, the test of its while loop finds no shutdown asked for:
\* selector.select(poll_interval) is called
SvSelect ==
  /\ sv_thread = "serving"
  /\ ~sv_shutdown_request
  /\ sv_thread' = "select"
  /\ UNCHANGED <<NotSv, sv_path, sv_port, sv_cwd, sv_caller, sv_server, sv_url, sv_shutdown_request,
                 sv_is_shut_down, sv_served, sv_raised>>

\* select() has returned and the flag, read again, is still not set: with a
\* request ready the pass goes on to handle it, with none it ends
SvReady ==
  /\ sv_thread = "select"
  /\ ~sv_shutdown_request
  /\ \E ready \in BOOLEAN :
       /\ ready => sv_served < MaxRequests
       /\ sv_thread' = IF ready THEN "handle" ELSE "serving"
  /\ UNCHANGED <<NotSv, sv_path, sv_port, sv_cwd, sv_caller, sv_server, sv_url, sv_shutdown_request,
                 sv_is_shut_down, sv_served, sv_raised>>

\* _handle_request_noblock(): the request is handled, whether or not stop()
\* has set the flag since the pass read it, and the pass ends
SvHandle ==
  /\ sv_thread = "handle"
  /\ sv_served' = sv_served + 1
  /\ sv_thread' = "serving"
  /\ UNCHANGED <<NotSv, sv_path, sv_port, sv_cwd, sv_caller, sv_server, sv_url, sv_shutdown_request,
                 sv_is_shut_down, sv_raised>>

\* serve_forever sees the flag, at the test of its while loop or after
\* select(): the flag is taken back and the event is set; serve_forever has
\* still to return
SvShutDown ==
  /\ sv_thread \in {"serving", "select"}
  /\ sv_shutdown_request
  /\ sv_shutdown_request' = FALSE
  /\ sv_is_shut_down' = TRUE
  /\ sv_thread' = "closing"
  /\ UNCHANGED <<NotSv, sv_path, sv_port, sv_cwd, sv_caller, sv_server, sv_url,
                 sv_served, sv_raised>>

\* serve_forever returns, the with block closes the server and the thread
\* ends
SvClose ==
  /\ sv_thread = "closing"
  /\ sv_thread' = "ended"
  /\ UNCHANGED <<NotSv, sv_path, sv_port, sv_cwd, sv_caller, sv_server, sv_url,
                 sv_shutdown_request, sv_is_shut_down, sv_served, sv_raised>>

\* stop(): self.__server.shutdown() sets the flag; on None it raises
\* AttributeError
SvStop ==
  /\ sv_caller = "started"
  /\ IF sv_server = "None"
     THEN /\ sv_raised' = "AttributeError"
          /\ sv_caller' = "raised"
          /\ UNCHANGED sv_shutdown_request
     ELSE /\ sv_shutdown_request' = TRUE
          /\ sv_caller' = "shutdown"
          /\ UNCHANGED sv_raised
  /\ UNCHANGED <<NotSv, sv_path, sv_port, sv_cwd, sv_thread, sv_server, sv_url, sv_is_shut_down, sv_served>>

\* stop(): shutdown() returns when the event is set
SvWaited ==
  /\ sv_caller = "shutdown"
  /\ sv_is_shut_down
  /\ sv_caller' = "join"
  /\ UNCHANGED <<NotSv, sv_path, sv_port, sv_cwd, sv_thread, sv_server, sv_url, sv_shutdown_request,
                 sv_is_shut_down, sv_served, sv_raised>>

\* stop(): self.__thread.join() returns when the thread has ended
SvJoin ==
  /\ sv_caller = "join"
  /\ sv_thread \in {"ended", "failed"}
  /\ sv_caller' = "stopped"
  /\ UNCHANGED <<NotSv, sv_path, sv_port, sv_cwd, sv_thread, sv_server, sv_url, sv_shutdown_request,
                 sv_is_shut_down, sv_served, sv_raised>>

SvNext ==
  \/ SvStart
  \/ SvChdir
  \/ SvBind
  \/ SvAssign
  \/ SvServe
  \/ SvSelect
  \/ SvReady
  \/ SvHandle
  \/ SvShutDown
  \/ SvClose
  \/ SvStop
  \/ SvWaited
  \/ SvJoin

SvSpec == SvInit /\ [][SvNext]_vars

(***************************************************************************)
(* robot_report.py: consolidate_results                                    *)
(***************************************************************************)
\* the most run results in a result_list
MaxRuns == 3

\* the suites of the results: the first two have the same key
CrSuites == {<<"S","-","a">>, <<"s","_","a">>, <<"s"," ","b">>}

CrName == <<"T","1">>

\* the messages of the failure elements of a run: none, one with a
\* message, one with an empty message, one without the message attribute
CrFails == {<<>>, <<<<"b","o","o","m">>>>, << <<>> >>, <<NoneVal>>}

\* the messages of the skipped elements of a run
CrSkips == {<<>>, <<<<"s","k","i","p","p","e","d">>>>}

\* a result of get_results; `time` tells the runs apart
CrResults(time) ==
  {[suite |-> s, name |-> CrName, fails |-> f, skips |-> k, time |-> time] :
     s \in CrSuites, f \in CrFails, k \in CrSkips}

\* the lists of up to n results, the i-th with time i
CrLists(n) ==
  UNION {[1..m -> CrResults(0)] : m \in 0..n}

\* not any([*test_fails, *test_skips])
is_pass(data) ==
  ~\E m \in Range(data.fails) \cup Range(data.skips) : Truthy(m)

\* the for loop of consolidate_results from the k-th result on
RECURSIVE Consolidate(_, _, _)
Consolidate(result_list, k, unique_results) ==
  IF k > Len(result_list) THEN unique_results
  ELSE LET data == result_list[k]
           key == key_name(data.suite, data.name)
           d == [pass |-> is_pass(data)] @@ data
       IN Consolidate(result_list, k + 1,
            IF ~DictHas(unique_results, key) THEN DictUpdate(unique_results, key, d)
            ELSE IF DictGet(unique_results, key).pass THEN unique_results
            ELSE IF is_pass(data) THEN DictUpdate(unique_results, key, d)
            ELSE unique_results)

consolidate_results(result_list) == Consolidate(result_list, 1, <<>>)

CrInit ==
  /\ \E list \in CrLists(MaxRuns) :
       cr_result_list = [i \in 1..Len(list) |-> [list[i] EXCEPT !.time = i]]
  /\ cr_unique = <<>>
  /\ cr_pc = "call"
  /\ CrAlone

CrCall ==
  /\ cr_pc = "call"
  /\ cr_unique' = consolidate_results(cr_result_list)
  /\ cr_pc' = "return"
  /\ UNCHANGED <<NotCr, cr_result_list>>

CrNext == CrCall

CrSpec == CrInit /\ [][CrNext]_vars

(***************************************************************************)
(* affected_tests.main over a keyword index iterated in any order          *)
(***************************************************************************)
\* the projects whose keyword index is iterated in every order
OrdProjects ==
  {<<FilePool[1], FilePool[2]>>,
   <<FilePool[1], FilePool[3]>>,
   <<FilePool[4], FilePool[5]>>}

\* the while loop of main (while keyword and affected_count !=
\* len(keyword_blacklist)) run to its end on the keyword index kd: the loop
\* variables when it stops
RECURSIVE RunLoop(_, _, _)
RunLoop(kd, st, count) ==
  IF ~Truthy(keyword) \/ count = Cardinality(st.keyword_blacklist) THEN st
  ELSE RunLoop(kd, ForLoop(update_affected(st.keyword_blacklist, kd), st),
               Cardinality(st.keyword_blacklist))

\* main has made the keyword index; its items are in one of their orders
OrdInit ==
  /\ argv \in CommandLines
  /\ parse_args(argv).raised = ""
  /\ parse_args(argv).input = script_path
  /\ Truthy(parse_args(argv).keyword)
  /\ ranking = NoRanking
  /\ robot_files \in OrdProjects
  /\ keyword = parse_args(argv).keyword
  /\ tags = LowerAll(parse_args(argv).tags)
  /\ pc = "get_test_cases"
  /\ raised = ""
  /\ printed = <<>>
  /\ keyword_data \in Orders(get_keywords(robot_files).data)
  /\ test_case_data = <<>>
  /\ affected_count = 0
  /\ keyword_blacklist = {}
  /\ resource_blacklist = <<>>
  /\ affected_keywords = <<>>
  /\ affected_test_cases = <<>>
  /\ iterations = 0
  /\ affected_csv = <<>>
  /\ MainAlone

OrdNext ==
  \/ GetTestCases
  \/ SetUp
  \/ LoopPass
  \/ ScanTestCases
  \/ WriteCsv

OrdSpec == OrdInit /\ [][OrdNext]_vars

(***************************************************************************)
(* Properties                                                              *)
(***************************************************************************)
\* text contains an invocation of name: the name in any case, two or more
\* whitespace characters or a tab before it, and two or more whitespace
\* characters, a tab or the end of the text after it
Invokes(name, text) ==
  \E p \in 1..Len(text) :
    LET q == p + Len(name)
        tab_before == p >= 2 /\ text[p - 1] = "\t"
        gap_before == p >= 3 /\ IsSpace(text[p - 1]) /\ IsSpace(text[p - 2])
        tab_after == q <= Len(text) /\ text[q] = "\t"
        gap_after == q + 1 <= Len(text) /\ IsSpace(text[q]) /\ IsSpace(text[q + 1])
        at_end == q = Len(text) + 1 \/ (q = Len(text) /\ text[q] = "\n")
    IN /\ q <= Len(text) + 1
       /\ Lower(SubSeq(text, p, q - 1)) = Lower(name)
       /\ tab_before \/ gap_before
       /\ tab_after \/ gap_after \/ at_end

\* text contains an invocation of some name of the list
InvokesAny(names, text) == \E i \in names : Invokes(i, text)

\* the row of affected.csv for a test case of the index
RowOf(data) ==
  <<data.suite, IF data.id = NoneVal THEN <<>> ELSE data.id, data.name,
    Join(<<" ">>, data.tags)>>

\* the file is written and has a row for the test case
HasRow(data) ==
  /\ affected_csv # <<>>
  /\ \E r \in 2..Len(affected_csv) : affected_csv[r] = RowOf(data)

\* the blacklist-growth loop has stopped
LoopStopped == pc \in {"report", "done"} /\ Truthy(keyword)

\* C1: when a seed keyword is given and no required tags, every test case
\* of the index whose body invokes the seed keyword is in the affected set
\* and has a row in affected.csv once the file is written
C1_SeedCallersReported ==
  (pc = "done" /\ Truthy(keyword) /\ tags = <<>>) =>
    \A n \in 1..Len(test_case_data) :
      Invokes(keyword, test_case_data[n].val.text) =>
        /\ DictHas(affected_test_cases, test_case_data[n].key)
        /\ HasRow(test_case_data[n].val)

\* two test cases that call the seed in different cases are both reported
C1_Witness ==
  /\ pc = "done" /\ Truthy(keyword) /\ tags = <<>>
  /\ \E m, n \in 1..Len(test_case_data) :
       /\ m # n
       /\ Invokes(keyword, test_case_data[m].val.text)
       /\ Invokes(keyword, test_case_data[n].val.text)
       /\ ~Contains(test_case_data[m].val.text, keyword)
       /\ RowOf(test_case_data[m].val) # RowOf(test_case_data[n].val)
       /\ HasRow(test_case_data[m].val)
       /\ HasRow(test_case_data[n].val)

\* every required tag is among the tags of the test case, in any case
HasRequiredTags(required, test_tags) ==
  \A i \in 1..Len(required) :
    \E j \in 1..Len(test_tags) : Lower(test_tags[j]) = Lower(required[i])

\* C2: once the test cases are scanned, a test case is in the affected set
\* exactly when its body invokes a blacklisted name and every required tag is
\* among its tags compared case-insensitively; so a matching test case that
\* lacks a required tag is not in the output and with no required tags no
\* matching test case is left out
C2_TagFilter ==
  LoopStopped =>
    \A n \in 1..Len(test_case_data) :
      LET data == test_case_data[n].val
          reported == DictHas(affected_test_cases, test_case_data[n].key)
      IN /\ reported <=> (/\ InvokesAny(keyword_blacklist, data.text)
                          /\ HasRequiredTags(tags, data.tags))
         /\ (pc = "done" /\ ~reported) => ~HasRow(data)

\* with required tags, a matching test case lacking one is left out and one
\* whose tag differs from the required tag only in case is reported
C2_Witness ==
  /\ pc = "done" /\ Truthy(keyword) /\ tags # <<>>
  /\ \E m, n \in 1..Len(test_case_data) :
       /\ InvokesAny(keyword_blacklist, test_case_data[m].val.text)
       /\ ~HasRequiredTags(tags, test_case_data[m].val.tags)
       /\ ~HasRow(test_case_data[m].val)
       /\ InvokesAny(keyword_blacklist, test_case_data[n].val.text)
       /\ \E i \in 1..Len(tags) : tags[i] \notin Range(test_case_data[n].val.tags)
       /\ HasRow(test_case_data[n].val)

\* the number of distinct blacklisted names
Distinct(names) == Cardinality(names)

\* a pass of the while loop is made in this step
PassMade == iterations' = iterations + 1

\* C3: the blacklist-growth loop terminates: the number of distinct
\* blacklisted names never decreases, the loop goes on after a pass that
\* added a name and exits after the first pass that added none, it makes at
\* most number-of-keywords + 1 passes, and main comes to its end
C3_LoopTerminates ==
  /\ [][Distinct(keyword_blacklist') >= Distinct(keyword_blacklist)]_vars
  /\ [][PassMade =>
          (LoopCond' <=> keyword_blacklist' # keyword_blacklist)]_vars
  /\ [][iterations' <= Len(keyword_data') + 1]_vars
  /\ <>(pc \in {"done", "raised"})

\* the loop has stopped after as many passes as the bound allows, every pass
\* but the last having added a name
C3_Witness ==
  /\ pc = "done"
  /\ iterations >= 3
  /\ iterations = Len(keyword_data) + 1
  /\ Distinct(keyword_blacklist) = iterations

\* the keyword blacklist holds the name of the keyword
Blacklisted(data) == Lower(data.name) \in keyword_blacklist

\* the file name of the keyword is in the file blacklist
FileBlacklisted(data) == get_path_basename(data.path) \in Range(resource_blacklist)

\* the file of the keyword imports a file of the file blacklist
ImportBlacklisted(data) ==
  \E i \in 1..Len(data.resources) :
    get_path_basename(data.resources[i]) \in Range(resource_blacklist)

\* C4 as stated: when the loop has stopped, every keyword of the index whose
\* body invokes a blacklisted name is in the keyword blacklist and its file
\* name is in the file blacklist, whatever file it lives in
C4_EveryCallerBlacklisted ==
  LoopStopped =>
    \A n \in 1..Len(keyword_data) :
      InvokesAny(keyword_blacklist, keyword_data[n].val.text) =>
        /\ Blacklisted(keyword_data[n].val)
        /\ FileBlacklisted(keyword_data[n].val)

\* the first half of C4 as the three branches of the for loop give it: when
\* the loop has stopped, a keyword whose body invokes a blacklisted name is in
\* the keyword blacklist provided it invokes the seed itself, or its file is
\* in the file blacklist, or its file imports a file of the file blacklist
C4_CallerBlacklistedByFile ==
  LoopStopped =>
    \A n \in 1..Len(keyword_data) :
      LET data == keyword_data[n].val
      IN (/\ InvokesAny(keyword_blacklist, data.text)
          /\ \/ Invokes(keyword, data.text)
             \/ FileBlacklisted(data)
             \/ ImportBlacklisted(data))
         => Blacklisted(data)

\* the second half of C4 on its own: when the loop has stopped, the file
\* name of every keyword that was added to the keyword blacklist for invoking
\* a blacklisted name is in the file blacklist
C4_AddedFileBlacklisted ==
  LoopStopped =>
    \A n \in 1..Len(keyword_data) :
      LET data == keyword_data[n].val
      IN (InvokesAny(keyword_blacklist, data.text) /\ Blacklisted(data))
         => FileBlacklisted(data)

\* the file of the keyword imports the file at path
Imports(data, path) ==
  \E i \in 1..Len(data.resources) :
    get_path_basename(data.resources[i]) = get_path_basename(path)

\* C5: when the loop has stopped, if a file imports a resource file and some
\* keyword of the resource file is in the blacklist, however it came there,
\* then every keyword of the importing file whose body invokes a blacklisted
\* name is in the blacklist
C5_ImportPropagates ==
  LoopStopped =>
    \A c, a \in 1..Len(keyword_data) :
      (/\ Blacklisted(keyword_data[c].val)
       /\ Imports(keyword_data[a].val, keyword_data[c].val.path)
       /\ InvokesAny(keyword_blacklist, keyword_data[a].val.text))
      => Blacklisted(keyword_data[a].val)

\* the tags the tool is to leave on a test case: the original tags without
\* the ones to remove, the new tags, and the test ID when it is not among them
ExpectedTags(test_tags, test_id, new, remove) ==
  LET removed == {Lower(t) : t \in Range(Split(remove))}
      kept == {t \in Range(test_tags) : Lower(t) \notin removed}
      wanted == kept \cup Range(Split(new))
  IN IF test_id = NoneVal \/ Lower(test_id) \in {Lower(t) : t \in wanted}
     THEN wanted
     ELSE wanted \cup {test_id}

\* C6: when the retag tool has run, parsing the files again gives every
\* test case named in retag.csv the tags (original minus removed) union new,
\* with the test ID added when it was not among them
C6_RetagRoundTrip ==
  rt_pc = "done" =>
    LET name_tags == get_new_tags(rt_rows)
        parsed == get_test_cases(rt_files).data
    IN \A n \in 1..Len(rt_test_case_data) :
         LET data == rt_test_case_data[n].val
             key == rt_test_case_data[n].key
         IN DictHas(name_tags, Lower(data.name)) =>
              /\ DictHas(parsed, key)
              /\ Range(DictGet(parsed, key).tags) =
                   ExpectedTags(data.tags, data.id,
                                DictGet(name_tags, Lower(data.name)).new,
                                DictGet(name_tags, Lower(data.name)).remove)

\* C7: a run that comes to its end has written to affected.csv the header
\* row (Suite, Test Case ID, Test Case Name, Tags) and then one row for each
\* test case of the affected set, in its order, and no other row; with no
\* seed keyword the affected set is empty and the file holds the header only
C7_CsvRows ==
  pc = "done" =>
    /\ Len(affected_csv) = Len(affected_test_cases) + 1
    /\ affected_csv[1] =
         <<<<"S","u","i","t","e">>,
           <<"T","e","s","t"," ","C","a","s","e"," ","I","D">>,
           <<"T","e","s","t"," ","C","a","s","e"," ","N","a","m","e">>,
           <<"T","a","g","s">>>>
    /\ \A n \in 1..Len(affected_test_cases) :
         affected_csv[n + 1] = RowOf(affected_test_cases[n].val)
    /\ \A m, n \in 1..Len(affected_test_cases) :
         affected_test_cases[m].key = affected_test_cases[n].key => m = n
    /\ ~Truthy(keyword) => (affected_test_cases = <<>> /\ Len(affected_csv) = 1)

\* a run with a seed has written the header and the rows of two test cases
C7_Witness ==
  /\ pc = "done"
  /\ Truthy(keyword)
  /\ Len(affected_test_cases) >= 2
  /\ Len(affected_csv) = Len(affected_test_cases) + 1
  /\ affected_csv[2] # affected_csv[3]

\* the call of update_affected has returned
UpdReturned == upd_pc = "return"

\* C8: update_affected returns the blocks of the index under their keys, each
\* with an affected_by list that has no duplicates, is all lower-case and
\* holds exactly the names of keyword_list whose invocation pattern matches
\* the body of the block, every other field being the one of the index; the
\* index it was given is not changed
C8_AffectedByExact ==
  /\ [](UpdReturned =>
         /\ Len(upd_result) = Len(upd_data)
         /\ \A k \in 1..Len(upd_data) :
              LET old == upd_data[k].val
                  new == upd_result[k].val
                  affected_by == new.affected_by
              IN /\ upd_result[k].key = upd_data[k].key
                 /\ DOMAIN new = DOMAIN old \cup {"affected_by"}
                 /\ \A f \in DOMAIN old \ {"affected_by"} : new[f] = old[f]
                 /\ \A i, j \in 1..Len(affected_by) :
                      affected_by[i] = affected_by[j] => i = j
                 /\ \A i \in 1..Len(affected_by) :
                      affected_by[i] = Lower(affected_by[i])
                 /\ Range(affected_by) =
                      {Lower(upd_keyword_list[i]) :
                         i \in {j \in 1..Len(upd_keyword_list) :
                                  Invokes(upd_keyword_list[j], old.text)}})
  /\ [][upd_data' = upd_data]_vars

\* the call was given a name twice, in two cases, and it matched a block:
\* the block has it once in affected_by
C8_Witness ==
  /\ UpdReturned
  /\ \E k \in 1..Len(upd_data) :
       /\ Len(upd_keyword_list) = 2
       /\ upd_keyword_list[1] # upd_keyword_list[2]
       /\ Invokes(upd_keyword_list[1], upd_data[k].val.text)
       /\ Invokes(upd_keyword_list[2], upd_data[k].val.text)
       /\ Len(upd_result[k].val.affected_by) = 1

\* the blocks of the section of one file in the order they are parsed, each
\* under its index key, the resource list being empty when the file has no
\* settings section
BlocksOf(file, word, with_tags) ==
  LET pairs == SectionPairs(header_list(file.data), word, 1,
                            [settings_section |-> NoneVal, section |-> NoneVal])
  IN IF ~file.exists \/ pairs.section = NoneVal THEN <<>>
     ELSE LET resources == IF pairs.settings_section = NoneVal THEN <<>>
                           ELSE resource_list(SectionText(file.data,
                                                          pairs.settings_section))
              blocks == FindBlocks(SectionText(file.data, pairs.section), 1)
              suite == SuiteOf(file.path)
              name(i) == Strip(NameMatch(blocks[i]))
          IN [i \in 1..Len(blocks) |->
                [key |-> Lower(SubDashes(suite) \o <<".">> \o name(i)),
                 val |-> BlockEntry(suite, name(i), file.path, blocks[i],
                                    resources, with_tags)]]

\* the blocks of all the files in the order they are parsed
AllBlocks(files, word, with_tags) ==
  LET F[n \in 0..Len(files)] ==
        IF n = 0 THEN <<>> ELSE F[n - 1] \o BlocksOf(files[n], word, with_tags)
  IN F[Len(files)]

\* the places of the blocks whose key an earlier block has produced
Collisions(blocks) ==
  {j \in 1..Len(blocks) : \E i \in 1..(j - 1) : blocks[i].key = blocks[j].key}

\* the index holds one entry for every key of the blocks, with the data of
\* the last block that produced the key
LastWins(index, blocks) ==
  /\ \A m, n \in 1..Len(index) : index[m].key = index[n].key => m = n
  /\ {index[n].key : n \in 1..Len(index)} = {blocks[i].key : i \in 1..Len(blocks)}
  /\ \A n \in 1..Len(index) :
       index[n].val =
         blocks[Max({i \in 1..Len(blocks) : blocks[i].key = index[n].key})].val

\* the names of the blocks at the places of S, in order
RECURSIVE NamesAt(_, _)
NamesAt(blocks, S) ==
  IF S = {} THEN <<>>
  ELSE <<blocks[Min(S)].val.name>> \o NamesAt(blocks, S \ {Min(S)})

\* C9: when both indexes are built, each holds exactly one entry for every
\* key its blocks produce, carrying all the data of the block parsed last
\* under that key and nothing of an earlier one, every block after a
\* collision is parsed, and one DUPLICATE warning is printed for every block
\* whose key an earlier block has produced
C9_DuplicateLastWins ==
  pc = "set_up" =>
    LET keywords == AllBlocks(robot_files, LitKeywords, FALSE)
        tests == AllBlocks(robot_files, LitTestCases, TRUE)
    IN /\ LastWins(keyword_data, keywords)
       /\ LastWins(test_case_data, tests)
       /\ printed = NamesAt(keywords, Collisions(keywords))
                    \o NamesAt(tests, Collisions(tests))

\* two keyword blocks with different bodies have produced one key: the
\* index holds the later one and the warning is printed
C9_Witness ==
  /\ pc = "set_up"
  /\ printed # <<>>
  /\ LET keywords == AllBlocks(robot_files, LitKeywords, FALSE)
     IN \E i, j \in 1..Len(keywords) :
          /\ i < j
          /\ keywords[i].key = keywords[j].key
          /\ keywords[i].val.text # keywords[j].val.text
          /\ DictGet(keyword_data, keywords[j].key).text = keywords[j].val.text

\* the file has a section of the kind but no settings section
NoSettings(file, word) ==
  LET pairs == SectionPairs(header_list(file.data), word, 1,
                            [settings_section |-> NoneVal, section |-> NoneVal])
  IN file.exists /\ pairs.section # NoneVal /\ pairs.settings_section = NoneVal

\* C10: a file with a keywords (or test cases) section and no settings
\* section is parsed without an exception, and its blocks are in the index
\* with an empty resource list
C10_MissingSettingsParsed ==
  \A i \in 1..Len(robot_files) :
    /\ (pc # "get_keywords" /\ NoSettings(robot_files[i], LitKeywords)) =>
         /\ raised = ""
         /\ LET blocks == BlocksOf(robot_files[i], LitKeywords, FALSE)
            IN \A b \in 1..Len(blocks) :
                 /\ DictHas(keyword_data, blocks[b].key)
                 /\ blocks[b].val.resources = <<>>
    /\ (pc \notin {"get_keywords", "get_test_cases"}
        /\ NoSettings(robot_files[i], LitTestCases)) =>
         /\ raised = ""
         /\ LET blocks == BlocksOf(robot_files[i], LitTestCases, TRUE)
            IN \A b \in 1..Len(blocks) :
                 /\ DictHas(test_case_data, blocks[b].key)
                 /\ blocks[b].val.resources = <<>>

\* a tc_<digits/underscores> token starts at p (hyphens count as the code's
\* pattern counts them, letters in any case)
TokenAt(s, p) ==
  /\ p + 3 <= Len(s)
  /\ Lower(SubSeq(s, p, p + 2)) = <<"t","c","_">>
  /\ s[p + 3] \in Digits \cup {"_", "-"}

\* the token that starts at p
TokenFrom(s, p) ==
  SubSeq(s, p, Max({e \in (p + 3)..Len(s) :
                      \A x \in (p + 3)..e : s[x] \in Digits \cup {"_", "-"}}))

\* the identifier the rule gives: the first token of the name, else the
\* first tag that begins with a token, else none
IdentifierOf(name, test_tags) ==
  LET places == {p \in 1..Len(name) : TokenAt(name, p)}
      matching == {i \in 1..Len(test_tags) : TokenAt(test_tags[i], 1)}
  IN IF places # {} THEN TokenFrom(name, Min(places))
     ELSE IF matching # {} THEN test_tags[Min(matching)]
     ELSE NoneVal

\* C11: the test id is the first tc_<digits/underscores> token of the name,
\* else the first tag that matches the same pattern, else none; a tag that
\* only starts with tc_ is never the id
C11_TestIdByPattern ==
  id_pc = "return" => id_result = IdentifierOf(id_name, id_tags)

\* the threads made for the keyword at place k of data.items()
ThreadsOf(k) == {t \in 1..Len(pop_threads) : pop_threads[t].of = k}

\* the threads that were started and have not ended
Alive == {t \in 1..Len(pop_threads) : pop_threads[t].state = "running"}

\* C12: popularity_contest makes exactly two worker threads for each
\* keyword; no worker of a keyword is started before both workers of every
\* earlier keyword have ended, so at most two workers are alive; and a
\* worker only ever reads the name and the file name of its own keyword.
C12_TwoWorkersPerKeyword ==
  /\ Cardinality(Alive) <= 2
  /\ \A k \in 1..Len(pop_data) :
       Cardinality(ThreadsOf(k)) =
         IF k < pop_i \/ (k = pop_i /\ pop_pc \notin {"for", "done"}) THEN 2 ELSE 0
  /\ \A t \in 1..Len(pop_threads) :
       LET thread == pop_threads[t]
       IN /\ thread.state # "new" =>
               \A u \in 1..Len(pop_threads) :
                 pop_threads[u].of < thread.of => pop_threads[u].state = "done"
          /\ thread.name_match = Lower(pop_data[thread.of].val.name)
          /\ thread.seen \subseteq {get_path_basename(pop_data[thread.of].val.path)}

\* both workers of a later keyword are running and one has read the path
C12_Witness ==
  /\ pop_i >= 2
  /\ Cardinality(Alive) = 2
  /\ \E t \in Alive : pop_threads[t].seen # {}

\* C13: a function wrapped with blackbox_logger returns what the function
\* itself returns for the same valid call, whatever the signature and
\* whichever arguments are positional, keyword or left to their defaults.
C13_WrapperTransparent ==
  bb_pc = "return" => bb_result[1] = func(bb_spec, bb_args, bb_kwargs)

\* the request returned the response of the second call of the session
\* method, made after one new session, and made no third call
SecondCallReturned ==
  /\ rf_result[1].raised = ""
  /\ rf_result[1].res = Response(rf_script[2].status, rf_script[2].json, 2)
  /\ rf_result[1].calls = 2
  /\ rf_result[1].auths = 2

\* C14 as stated: when the first call of the session method raises
\* ConnectionError, the client makes a new session, calls the method exactly
\* once more and returns the response of that second call.
C14_ReconnectOnce ==
  (rf_pc = "return" /\ rf_script[1].exc = "ConnectionError") => SecondCallReturned

\* C14, amended: the same, when the second call returns a response whose
\* status is not 401.
C14_ReconnectOnceNot401 ==
  (/\ rf_pc = "return"
   /\ rf_script[1].exc = "ConnectionError"
   /\ rf_script[2].exc = ""
   /\ rf_script[2].status # 401) => SecondCallReturned

\* a request returned after ConnectionError and then a 200 response
C14_Witness ==
  /\ rf_pc = "return"
  /\ rf_script[1].exc = "ConnectionError"
  /\ rf_script[2] = Returns(200, "foo")
  /\ rf_result[1].res.json = "foo"

\* C15: when a call of the session method made for a request raises
\* ReadTimeout, the request does not raise and returns the made-up response:
\* status 599, not ok, a body that is not empty.
C15_ReadTimeoutAnswered ==
  (/\ rf_pc = "return"
   /\ \E k \in 1..rf_result[1].calls : rf_script[k].exc = "ReadTimeout")
  => /\ rf_result[1].raised = ""
     /\ rf_result[1].res.status = 599
     /\ ~Ok(rf_result[1].res)
     /\ rf_result[1].res.json # ""

\* the first POST code of each entry that has one, in the order of the
\* entries
RECURSIVE CodesOf(_)
CodesOf(entry_list) ==
  IF entry_list = <<>> THEN <<>>
  ELSE LET m == Head(entry_list).Message
           code == IF m = NoneVal THEN <<>> ELSE code_match(m, 1)
       IN (IF code = <<>> THEN <<>> ELSE <<code[1]>>) \o CodesOf(Tail(entry_list))

\* C16: get_post_codes makes one GET request; for a response with status
\* 200 it returns the POST codes of the entries in entry order, skipping the
\* entries without a code; for status 204 the empty list; for every other
\* status None.
C16_PostCodesByStatus ==
  (pc_pc = "return" /\ pc_res.raised = "") =>
    /\ pc_gets = 1
    /\ pc_result[1].raised = ""
    /\ pc_res.status = 200 =>
         (~pc_result[1].none /\ pc_result[1].ret = CodesOf(pc_res.Members))
    /\ pc_res.status = 204 => (~pc_result[1].none /\ pc_result[1].ret = <<>>)
    /\ pc_res.status \notin {200, 204} => pc_result[1].none

\* every call of func before the last one raised
EarlierFailed ==
  \A k \in 1..(Len(ry_attempts) - 1) : ry_attempts[k].exc # ""

\* C17: a function wrapped with retry(n), n >= 1, is called again and again
\* until a call succeeds, n times at most; the wrapper returns the value of
\* the first call that succeeds and calls no more; when n calls have raised
\* it raises an Exception that names n attempts and the last error; and it
\* always comes to one of the two ends.
C17_RetryUntilSuccess ==
  /\ [](ry_n >= 1 =>
         /\ Len(ry_attempts) <= ry_n
         /\ EarlierFailed
         /\ ry_pc = "return" =>
              /\ ry_attempts[Len(ry_attempts)].exc = ""
              /\ ry_result[1].raised = ""
              /\ ry_result[1].value = ry_attempts[Len(ry_attempts)].value
         /\ ry_pc = "raised" =>
              /\ Len(ry_attempts) = ry_n
              /\ ry_attempts[ry_n].exc # ""
              /\ ry_result[1].raised = "Exception"
              /\ ry_result[1].attempts = ry_n
              /\ ry_result[1].cause = ry_attempts[ry_n].exc)
  /\ [][(ry_pc \in {"return", "raised"}) => (ry_attempts' = ry_attempts)]_vars
  /\ (ry_n >= 1 => <>(ry_pc \in {"return", "raised"}))

\* the wrapper returned the value of a call that followed two failed calls
C17_Witness ==
  /\ ry_pc = "return"
  /\ Len(ry_attempts) = 3
  /\ ry_result[1].value = 1

\* C18: update_firmware called with wait=True returns True only when the
\* last task state it has seen is PercentComplete 100, TaskState
\* 'completed', TaskStatus 'ok'; never for a task that still runs when the
\* wait ends.
C18_TrueOnlyWhenCompleted ==
  (fw_pc = "return" /\ fw_wait /\ fw_status) =>
    /\ fw_res_json.PercentComplete = 100
    /\ Lower(fw_res_json.TaskState) = LitCompleted
    /\ Lower(fw_res_json.TaskStatus) = LitOk

\* C20: a poll that raises does not end the wait of update_firmware: when
\* the loop is left after such a poll, the time limit has passed.
C20_RaisedPollKeepsWaiting ==
  (fw_pc = "return" /\ fw_wait /\ fw_raised) => fw_elapsed >= WaitLimit

\* the parameter is one of the API
IsApi(name) == DictHas(robot_kwargs, name)

\* the parameters of the function that are not of the API, in order
RECURSIVE NonApi(_)
NonApi(names) ==
  IF names = <<>> THEN <<>>
  ELSE (IF IsApi(Head(names)) THEN <<>> ELSE <<Head(names)>>) \o NonApi(Tail(names))

\* the place of the name in the list
PlaceIn(names, name) == CHOOSE k \in 1..Len(names) : names[k] = name

\* C19: a function decorated with robot_args and called under Robot
\* Framework with its non-API arguments only gets them for its non-API
\* parameters in the order they were passed, the Robot variable for each
\* API parameter, and a keyword argument in place of either.
C19_RobotArgsBinding ==
  (/\ ra_pc = "return"
   /\ ra_running
   /\ Len(ra_args) = Len(NonApi(ra_spec.args)))
  => /\ ra_result[1].raised = ""
     /\ ra_result[1].ret =
          IF ra_spec.args = <<>> THEN TRUE
          ELSE [j \in 1..Len(ra_spec.args) |->
                  IF DictHas(ra_kwargs, ra_spec.args[j])
                  THEN DictGet(ra_kwargs, ra_spec.args[j])
                  ELSE IF IsApi(ra_spec.args[j]) THEN RobotValue
                  ELSE ra_args[PlaceIn(NonApi(ra_spec.args), ra_spec.args[j])]]

\* the k-th call of the session method returned a response
Answered(k) == rf_script[k].exc = ""

\* the k-th call is the repetition of a call that was answered with 401
Repeated(k) == k >= 2 /\ Answered(k - 1)

\* the request returned the response of the k-th call, its last one
ReturnedCall(k) ==
  /\ rf_result[1].calls = k
  /\ rf_result[1].raised = ""
  /\ rf_result[1].res = Response(rf_script[k].status, rf_script[k].json, k)

\* the first call raised ConnectionError, or its repetition after a 401 did
FirstTryLostConnection ==
  \/ rf_script[1].exc = "ConnectionError"
  \/ /\ Answered(1) /\ rf_script[1].status = 401
     /\ rf_script[2].exc = "ConnectionError"

\* C21: a response with status 401 makes the client create a new session and
\* repeat the request exactly once; the response of the repetition is
\* returned whatever its status, a second 401 too; a response with another
\* status is returned without a repetition.
C21_ReauthOnce ==
  rf_pc = "return" =>
    /\ \A k \in 1..rf_result[1].calls :
         Answered(k) =>
           IF rf_script[k].status # 401 \/ Repeated(k)
           THEN ReturnedCall(k)
           ELSE /\ rf_result[1].calls >= k + 1
                /\ Answered(k + 1) => ReturnedCall(k + 1)
    /\ rf_result[1].auths =
         1 + Cardinality({k \in 1..rf_result[1].calls :
                            Answered(k) /\ rf_script[k].status = 401 /\ ~Repeated(k)})
           + (IF FirstTryLostConnection THEN 1 ELSE 0)

\* a request answered with 401 twice: the second 401 is what it returned
C21_Witness ==
  /\ rf_pc = "return"
  /\ rf_script[1] = Returns(401, "unauthorized")
  /\ rf_script[2] = Returns(401, "unauthorized")
  /\ rf_result[1].res.status = 401
  /\ rf_result[1].calls = 2

\* the attempts that gave data, in order
RECURSIVE DataAttempts(_)
DataAttempts(k) ==
  IF k = 0 THEN <<>>
  ELSE DataAttempts(k - 1) \o (IF rv_attempts[k] THEN <<k>> ELSE <<>>)

\* C22: recv_all returns before its timeout only when its most recent
\* attempts, the last one included, all gave no data, so never right after
\* data was received; and every chunk received is in the result, in order.
C22_NoEarlyStopAfterData ==
  /\ rv_res_all = DataAttempts(Len(rv_attempts))
  /\ (rv_pc = "return" /\ rv_elapsed < rv_timeout) =>
       /\ Len(rv_attempts) >= Rechecks
       /\ \A k \in (Len(rv_attempts) - Rechecks + 1)..Len(rv_attempts) : ~rv_attempts[k]

\* C23: start() returns whatever the server thread does, and stop(), called
\* at any time after it, does not raise: it never meets a server that is
\* not assigned yet, and when it has returned the server is shut down and
\* the thread has ended.
C23_StopAfterStart ==
  /\ sv_caller \in {"shutdown", "join", "stopped"} => sv_server = "httpd"
  /\ sv_raised = ""
  /\ sv_caller = "stopped" => sv_thread = "ended"

\* the run has no failure and was not skipped
RunPassed(data) == data.fails = <<>> /\ data.skips = <<>>

\* the places in result_list of the runs of a key
RunsOf(key) ==
  {i \in 1..Len(cr_result_list) :
     key_name(cr_result_list[i].suite, cr_result_list[i].name) = key}

\* the run that is to be kept for a key: its first run that passed, or its
\* first run when none passed
KeptRun(key) ==
  LET passed == {i \in RunsOf(key) : RunPassed(cr_result_list[i])}
  IN IF passed # {} THEN Min(passed) ELSE Min(RunsOf(key))

\* C24: consolidate_results keeps one result for each key, the first run of
\* the key that passed, or the first run of the key when none passed; so a
\* key is reported as passed exactly when one of its runs passed.
C24_OneResultPerKey ==
  cr_pc = "return" =>
    /\ DictKeys(cr_unique) =
         {key_name(cr_result_list[i].suite, cr_result_list[i].name) :
            i \in 1..Len(cr_result_list)}
    /\ \A i, j \in 1..Len(cr_unique) : cr_unique[i].key = cr_unique[j].key => i = j
    /\ \A i \in 1..Len(cr_unique) :
         LET key == cr_unique[i].key
         IN /\ cr_unique[i].val.time = KeptRun(key)
            /\ cr_unique[i].val.pass <=>
                 \E r \in RunsOf(key) : RunPassed(cr_result_list[r])

\* C25: whatever the interleaving of the two workers, the use_count that
\* popularity_contest records for a keyword is the number of keyword blocks
\* plus the number of test-case blocks that invoke it and are in its file or
\* import its file: no increment is lost.
C25_NoLostIncrement ==
  pop_pc = "done" =>
    /\ Len(pop_updated) = Len(pop_data)
    /\ \A k \in 1..Len(pop_updated) :
         LET name == Lower(pop_data[k].val.name)
             path == get_path_basename(pop_data[k].val.path)
         IN pop_updated[k].val.use_count =
              UseCount(name, path, pop_data)
              + UseCount(name, path, pop_test_data)

\* the lines of a text that are not blank, without the white space at their
\* end, from position p on
RECURSIVE LinesFrom(_, _)
LinesFrom(s, p) ==
  IF p > Len(s) THEN <<>>
  ELSE LET e == LineEnd(s, p)
           b == StripRight(s, e - 1)
       IN (IF b < p THEN <<>> ELSE <<SubSeq(s, p, b)>>) \o LinesFrom(s, e + 1)

\* a section header, a first line of a block, a [Tags] line
IsHeaderLine(line) == StartsWith(line, Stars3)

IsBlockLine(line) == ~IsSpace(line[1]) /\ line[1] # "#" /\ ~IsHeaderLine(line)

IsTagsLine(line) == MatchAt(line, StripLeft(line, 1), LitTags)

\* the first line of the block that line k of lines is in, 0 if it is in none
OwnerOf(lines, k) ==
  LET tops == {j \in 1..k : IsBlockLine(lines[j]) \/ IsHeaderLine(lines[j])}
  IN IF tops = {} \/ IsHeaderLine(lines[Max(tops \cup {0})]) THEN 0
     ELSE Max(tops)

\* line j is under a test cases header
InTestCases(lines, j) ==
  LET heads == {h \in 1..j : IsHeaderLine(lines[h])}
  IN heads # {} /\ TestCasesHeader(lines[Max(heads \cup {0})], 1) # 0

\* the tags of the block that starts at line j
BlockTags(lines, j) ==
  LET mine == {k \in j..Len(lines) : OwnerOf(lines, k) = j /\ IsTagsLine(lines[k])}
  IN IF mine = {} THEN <<>> ELSE TagsOf(lines[Min(mine)])

\* the test case that starts at line j is the one item is about, by its name
\* (read with or without a comment after it) or by its id
MatchesItem(lines, j, item) ==
  LET name == Strip(lines[j])
      bare == IF NameMatch(lines[j]) = NoneVal THEN name
              ELSE Strip(NameMatch(lines[j]))
      test_id == TestIdOf(name, BlockTags(lines, j))
  IN \/ Lower(item.name) \in {Lower(name), Lower(bare)}
     \/ (test_id # NoneVal /\ test_id # <<>> /\ item.tc_id = test_id)

\* new is old but for [Tags] lines of the test cases item is about
FrameKept(old, new, item) ==
  LET a == LinesFrom(old, 1)
      b == LinesFrom(new, 1)
  IN /\ Len(a) = Len(b)
     /\ \A k \in 1..Len(a) :
          a[k] # b[k] =>
            /\ IsTagsLine(a[k]) /\ IsTagsLine(b[k])
            /\ OwnerOf(a, k) # 0
            /\ InTestCases(a, OwnerOf(a, k))
            /\ MatchesItem(a, OwnerOf(a, k), item)

\* C26: retag_test_case changes nothing in the file but the [Tags] line of
\* the test cases that match by name or id: every section header (a Keywords
\* section after the Test Cases section too), every other test case and every
\* keyword block is still there, in the same order.
C26_RetagFrame ==
  [][(rt_files' # rt_files) =>
       \A i \in 1..Len(rt_files) :
         FrameKept(rt_files[i].data, rt_files'[i].data, Head(rt_retag_list))]_vars

\* the same for files whose last section is the Test Cases section
C26_RetagFrameLastSection ==
  [][(rt_files' # rt_files) =>
       \A i \in 1..Len(rt_files) :
         LET a == LinesFrom(rt_files[i].data, 1)
             heads == {h \in 1..Len(a) : IsHeaderLine(a[h])}
         IN (heads # {} /\ TestCasesHeader(a[Max(heads \cup {0})], 1) # 0) =>
              FrameKept(rt_files[i].data, rt_files'[i].data, Head(rt_retag_list))]_vars

\* every name of the blacklist kb is the lower-cased seed or the lower-cased
\* name of a keyword of the index whose body invokes a name of kb
GrownByCalls(kb) ==
  \A i \in kb :
    \/ i = Lower(keyword)
    \/ \E k \in 1..Len(keyword_data) :
         /\ Lower(keyword_data[k].val.name) = i
         /\ \E j \in kb : name_match(j, keyword_data[k].val.text)

\* the keyword blacklist after the first n items of the for loop of the pass
\* that is about to be made
BlacklistAfter(n) ==
  ForLoop(SubSeq(update_affected(keyword_blacklist, keyword_data), 1, n),
          LoopState(keyword_blacklist, resource_blacklist,
                    affected_keywords)).keyword_blacklist

\* C28: in every state of the loop that grows the blacklist, between two
\* passes and between two items of a pass, each name of the keyword blacklist
\* is the lower-cased seed or the lower-cased name of a keyword whose body
\* invokes a blacklisted name; the file a keyword resides in or the resources
\* it imports never blacklist it on their own.
C28_BlacklistGrownByCalls ==
  (Truthy(keyword) /\ pc \in {"loop", "report", "done"}) =>
    /\ GrownByCalls(keyword_blacklist)
    /\ (pc = "loop" /\ LoopCond) =>
         \A n \in 0..Len(keyword_data) : GrownByCalls(BlacklistAfter(n))

\* a pass has been made and the blacklist holds a keyword that does not
\* invoke the seed: it came in through its file or an import, and its body
\* invokes a blacklisted name; a keyword that invokes no blacklisted name is
\* not in the blacklist
C28_Witness ==
  /\ Truthy(keyword) /\ pc = "loop" /\ iterations >= 1
  /\ \E m, n \in 1..Len(keyword_data) :
       /\ Blacklisted(keyword_data[m].val)
       /\ Lower(keyword_data[m].val.name) # Lower(keyword)
       /\ ~Invokes(keyword, keyword_data[m].val.text)
       /\ (FileBlacklisted(keyword_data[m].val) \/ ImportBlacklisted(keyword_data[m].val))
       /\ InvokesAny(keyword_blacklist, keyword_data[m].val.text)
       /\ ~InvokesAny(keyword_blacklist, keyword_data[n].val.text)
       /\ ~Blacklisted(keyword_data[n].val)

\* the loop variables after the first n items of updated_data, from st0 on
PassAfter(updated_data, st0, n) == ForLoop(SubSeq(updated_data, 1, n), st0)

\* the names in the keyword blacklist after a pass made of item n alone
AloneAdds(updated_data, st0, n) ==
  ForLoop(SubSeq(updated_data, n, n), st0).keyword_blacklist

\* the loop run on the keyword index in the order the files give it
InFileOrder ==
  RunLoop(get_keywords(robot_files).data,
          LoopState({Lower(keyword)}, <<>>, <<>>), 0)

\* C27: for a given keyword index, test case index, seed and tag list, the
\* names of the final keyword blacklist and the affected test cases are the
\* same in whatever order the keyword index is iterated; and within a pass
\* the names added before an item never change what is decided for the item.
C27_OrderIndependent ==
  /\ (pc = "done" /\ Truthy(keyword)) =>
       LET kb == InFileOrder.keyword_blacklist
       IN /\ keyword_blacklist = kb
          /\ DictKeys(affected_test_cases) =
               DictKeys(Kept(update_affected(kb, test_case_data)))
  /\ (Truthy(keyword) /\ pc = "loop" /\ LoopCond) =>
       LET updated_data == update_affected(keyword_blacklist, keyword_data)
           st0 == LoopState(keyword_blacklist, resource_blacklist,
                            affected_keywords)
       IN \A n \in 1..Len(updated_data) :
            PassAfter(updated_data, st0, n).keyword_blacklist =
              PassAfter(updated_data, st0, n - 1).keyword_blacklist
                \cup AloneAdds(updated_data, st0, n)

\* the loop has stopped after three passes or more on an index that is not
\* iterated in the order of the files, with test cases affected
C27_Witness ==
  /\ pc = "done" /\ Truthy(keyword)
  /\ keyword_data # get_keywords(robot_files).data
  /\ iterations >= 3
  /\ Cardinality(keyword_blacklist) >= 3
  /\ affected_test_cases # <<>>

====
